---- MODULE Spec2Model ----
(***************************************************************************)
(* Portfolio manager: the persistence layer (modules/database.py) and the  *)
(* identity manager (modules/auth.py), with the insert paths of the asset  *)
(* modules.  The database is one set of rows per table; every statement    *)
(* commits on its own (sqlite3 connection per call).  Storage is assumed   *)
(* available: a statement fails only where SQLite must reject it (unknown  *)
(* column, UNIQUE or NOT NULL violation).  Timestamp values are not        *)
(* tracked, only the presence of the timestamp columns in the schema.      *)
(* A nullable column holds NULL (the empty tuple) or <<v>>.                *)
(***************************************************************************)
EXTENDS Integers, Sequences, FiniteSets, TLC

VARIABLES db, seq, ret, advisor, session, calls

vars == <<db, seq, ret, advisor, session, calls>>

(* ------------------------------ bounds --------------------------------- *)
MaxRows == 2
MaxPrefIds == 2

(* ------------------------------ inputs --------------------------------- *)
Usernames == {"alice", "bob", "al"}
Passwords == {"secret1", "hunter22", "abc"}

NULL == <<>>
Some(v) == <<v>>

(* ------------------------------ schema --------------------------------- *)
Tables == {"users", "user_preferences", "mutual_funds", "stocks", "expenses",
           "goals", "transactions", "ai_interactions", "portfolio_snapshots"}

Columns(t) ==
  CASE t = "users" -> {"id", "username", "password_hash", "email", "full_name",
                       "phone", "created_at", "updated_at"}
    [] t = "user_preferences" -> {"id", "user_id", "theme", "currency",
                       "risk_tolerance", "investment_goal", "monthly_income",
                       "monthly_expenses"}
    [] t = "mutual_funds" -> {"id", "user_id", "fund_name", "fund_house",
                       "scheme_code", "isin", "amount_invested", "units", "nav",
                       "purchase_date", "current_value", "category",
                       "subcategory", "expense_ratio", "fund_manager",
                       "risk_level", "returns_1y", "returns_3y", "returns_5y",
                       "created_at", "updated_at"}
    [] t = "stocks" -> {"id", "user_id", "stock_name", "symbol", "exchange",
                       "quantity", "purchase_price", "current_price",
                       "purchase_date", "sector", "industry", "market_cap",
                       "pe_ratio", "dividend_yield", "beta", "stop_loss",
                       "target_price", "notes", "created_at", "updated_at"}
    [] t = "expenses" -> {"id", "user_id", "category", "subcategory",
                       "description", "amount", "date", "type",
                       "payment_method", "tags", "is_recurring",
                       "recurring_frequency", "created_at", "updated_at"}
    [] t = "goals" -> {"id", "user_id", "goal_name", "description",
                       "target_amount", "current_amount", "target_date",
                       "category", "priority", "status",
                       "monthly_contribution", "auto_invest", "created_at",
                       "updated_at"}
    [] t = "transactions" -> {"id", "user_id", "transaction_type",
                       "asset_type", "asset_id", "amount", "quantity", "price",
                       "transaction_date", "fees", "taxes", "description",
                       "created_at"}
    [] t = "ai_interactions" -> {"id", "user_id", "question", "response",
                       "context", "session_id", "created_at"}
    [] t = "portfolio_snapshots" -> {"id", "user_id", "snapshot_date",
                       "total_investment", "current_value", "total_returns",
                       "returns_percentage", "asset_allocation", "created_at"}

\* The schema without the UNIQUE constraint on users.username.
UniqueColsNone(t) == {}

\* Columns declared UNIQUE / NOT NULL (those without a DEFAULT).
UniqueCols(t) == IF t = "users" THEN {"username"} ELSE {}

NotNullCols(t) ==
  CASE t = "users" -> {"username", "password_hash"}
    [] t = "mutual_funds" -> {"fund_name", "amount_invested"}
    [] t = "stocks" -> {"stock_name"}
    [] t = "expenses" -> {"category", "amount"}
    [] t = "goals" -> {"goal_name", "target_amount"}
    [] t = "transactions" -> {"transaction_type", "amount"}
    [] t = "ai_interactions" -> {"question", "response"}
    [] OTHER -> {}

\* The columns whose values the model tracks, with the value a row gets
\* for a column the INSERT does not name (the DEFAULT, else NULL).
RowDefaults(t) ==
  CASE t = "users" -> [username |-> "", password_hash |-> "", email |-> "",
                       full_name |-> "", phone |-> ""]
    [] t = "user_preferences" -> [user_id |-> 0, theme |-> "light",
                       currency |-> "INR", risk_tolerance |-> "moderate",
                       investment_goal |-> NULL, monthly_income |-> NULL,
                       monthly_expenses |-> NULL]
    [] t = "mutual_funds" -> [user_id |-> 0, fund_name |-> "",
                       amount_invested |-> 0, current_value |-> 0,
                       category |-> ""]
    [] t = "stocks" -> [user_id |-> 0, stock_name |-> "", quantity |-> 0,
                       purchase_price |-> 0, current_price |-> 0,
                       sector |-> ""]
    [] t = "expenses" -> [user_id |-> 0, category |-> "", amount |-> 0,
                       date |-> 0, type |-> "expense"]
    [] t = "goals" -> [user_id |-> 0, target_amount |-> 0,
                       current_amount |-> 0, status |-> "active"]
    [] t = "ai_interactions" -> [user_id |-> 0, question |-> "",
                       response |-> ""]
    [] OTHER -> [user_id |-> 0]

(* -------------------------- storage gateway ---------------------------- *)
\* INSERT INTO table (keys of data) VALUES (...): the outcome on database d
\* with AUTOINCREMENT counters s.  err is the raised sqlite3 error, "" if none.
insert_record(d, s, table, data) ==
  LET id  == s[table] + 1
      def == RowDefaults(table)
      row == [c \in (DOMAIN def) \cup {"id"} |->
                IF c = "id" THEN id
                ELSE IF c \in DOMAIN data THEN data[c] ELSE def[c]]
      err == IF ~(DOMAIN data \subseteq Columns(table)) THEN "no such column"
             ELSE IF ~(NotNullCols(table) \subseteq DOMAIN data)
               THEN "NOT NULL constraint failed"
             ELSE IF \E c \in UniqueCols(table) : \E r \in d[table] :
                       r[c] = row[c]
               THEN "UNIQUE constraint failed"
             ELSE ""
  IN IF err # "" THEN [err |-> err, db |-> d, seq |-> s, id |-> 0]
     ELSE [err |-> "", db |-> [d EXCEPT ![table] = @ \cup {row}],
           seq |-> [s EXCEPT ![table] = id], id |-> id]

\* The UPDATE without its WHERE clause.
update_every_row(d, table, record_id, data) ==
  LET ok == (DOMAIN data \cup {"updated_at"}) \subseteq Columns(table)
      upd(r) == [c \in DOMAIN r |->
                   IF c \in DOMAIN data THEN data[c] ELSE r[c]]
  IN IF ~ok THEN [ok |-> FALSE, db |-> d]
     ELSE [ok |-> TRUE,
           db |-> [d EXCEPT ![table] = {upd(r) : r \in @}]]

\* UPDATE table SET <data>, updated_at = CURRENT_TIMESTAMP WHERE id = ?
\* The error is caught inside: the result is the boolean ok.
update_record(d, table, record_id, data) ==
  LET ok == (DOMAIN data \cup {"updated_at"}) \subseteq Columns(table)
      upd(r) == [c \in DOMAIN r |->
                   IF c \in DOMAIN data THEN data[c] ELSE r[c]]
  IN IF ~ok THEN [ok |-> FALSE, db |-> d]
     ELSE [ok |-> TRUE,
           db |-> [d EXCEPT ![table] =
                     {IF r.id = record_id THEN upd(r) ELSE r : r \in @}]]

\* The DELETE without its WHERE clause.
delete_all_rows(d, table, user_id) ==
  IF "user_id" \notin Columns(table)
    THEN [err |-> "no such column: user_id", db |-> d]
    ELSE [err |-> "", db |-> [d EXCEPT ![table] = {}]]

\* execute_query("DELETE FROM table WHERE user_id = ?", (user_id,))
delete_where_user_id(d, table, user_id) ==
  IF "user_id" \notin Columns(table)
    THEN [err |-> "no such column: user_id", db |-> d]
    ELSE [err |-> "",
          db |-> [d EXCEPT ![table] = {r \in @ : r.user_id # user_id}]]

(* --------------------------- identity manager -------------------------- *)
salt == "santhoshswapna_portfolio_salt"

\* hashlib.sha256((password + salt).encode()).hexdigest(); sha256 is taken
\* to be injective on the strings that occur.
hash_password(password) == "sha256(" \o password \o salt \o ")"

\* register_user that treats an existing username as an update of its password.
register_user_upsert(d, s, username, password, email, full_name, phone) ==
  IF Len(username) < 3
    THEN [ok |-> FALSE, msg |-> "Username must be at least 3 characters long",
          db |-> d, seq |-> s]
  ELSE IF Len(password) < 6
    THEN [ok |-> FALSE, msg |-> "Password must be at least 6 characters long",
          db |-> d, seq |-> s]
  ELSE IF \E r \in d["users"] : r.username = username
    THEN [ok |-> TRUE, msg |-> "User registered successfully!",
          db |-> [d EXCEPT !["users"] =
                    {IF r.username = username
                       THEN [r EXCEPT !.password_hash = hash_password(password)]
                       ELSE r : r \in @}],
          seq |-> s]
  ELSE
    LET i1 == insert_record(d, s, "users",
                [username |-> username,
                 password_hash |-> hash_password(password),
                 email |-> email, full_name |-> full_name, phone |-> phone,
                 created_at |-> "now", updated_at |-> "now"])
        i2 == insert_record(i1.db, i1.seq, "user_preferences",
                [user_id |-> i1.id, theme |-> "light", currency |-> "INR",
                 risk_tolerance |-> "moderate", monthly_income |-> Some(0),
                 monthly_expenses |-> Some(0)])
    IN IF i1.err # ""
         THEN [ok |-> FALSE, msg |-> "Registration failed: " \o i1.err,
               db |-> i1.db, seq |-> i1.seq]
       ELSE IF i2.err # ""
         THEN [ok |-> FALSE, msg |-> "Registration failed: " \o i2.err,
               db |-> i2.db, seq |-> i2.seq]
       ELSE [ok |-> TRUE, msg |-> "User registered successfully!",
             db |-> i2.db, seq |-> i2.seq]

\* register_user without the password length check.
register_user_any_password(d, s, username, password, email, full_name, phone) ==
  IF Len(username) < 3
    THEN [ok |-> FALSE, msg |-> "Username must be at least 3 characters long",
          db |-> d, seq |-> s]
  ELSE IF \E r \in d["users"] : r.username = username
    THEN [ok |-> FALSE, msg |-> "Username already exists", db |-> d, seq |-> s]
  ELSE
    LET i1 == insert_record(d, s, "users",
                [username |-> username,
                 password_hash |-> hash_password(password),
                 email |-> email, full_name |-> full_name, phone |-> phone,
                 created_at |-> "now", updated_at |-> "now"])
        i2 == insert_record(i1.db, i1.seq, "user_preferences",
                [user_id |-> i1.id, theme |-> "light", currency |-> "INR",
                 risk_tolerance |-> "moderate", monthly_income |-> Some(0),
                 monthly_expenses |-> Some(0)])
    IN IF i1.err # ""
         THEN [ok |-> FALSE, msg |-> "Registration failed: " \o i1.err,
               db |-> i1.db, seq |-> i1.seq]
       ELSE IF i2.err # ""
         THEN [ok |-> FALSE, msg |-> "Registration failed: " \o i2.err,
               db |-> i2.db, seq |-> i2.seq]
       ELSE [ok |-> TRUE, msg |-> "User registered successfully!",
             db |-> i2.db, seq |-> i2.seq]

\* register_user whose preferences row names only the user id.
register_user_bare_prefs(d, s, username, password, email, full_name, phone) ==
  IF Len(username) < 3
    THEN [ok |-> FALSE, msg |-> "Username must be at least 3 characters long",
          db |-> d, seq |-> s]
  ELSE IF Len(password) < 6
    THEN [ok |-> FALSE, msg |-> "Password must be at least 6 characters long",
          db |-> d, seq |-> s]
  ELSE IF \E r \in d["users"] : r.username = username
    THEN [ok |-> FALSE, msg |-> "Username already exists", db |-> d, seq |-> s]
  ELSE
    LET i1 == insert_record(d, s, "users",
                [username |-> username,
                 password_hash |-> hash_password(password),
                 email |-> email, full_name |-> full_name, phone |-> phone,
                 created_at |-> "now", updated_at |-> "now"])
        i2 == insert_record(i1.db, i1.seq, "user_preferences",
                [user_id |-> i1.id])
    IN IF i1.err # ""
         THEN [ok |-> FALSE, msg |-> "Registration failed: " \o i1.err,
               db |-> i1.db, seq |-> i1.seq]
       ELSE IF i2.err # ""
         THEN [ok |-> FALSE, msg |-> "Registration failed: " \o i2.err,
               db |-> i2.db, seq |-> i2.seq]
       ELSE [ok |-> TRUE, msg |-> "User registered successfully!",
             db |-> i2.db, seq |-> i2.seq]

\* The outcome of register_user on database d: the (success, message) pair
\* and the database it leaves.
register_user(d, s, username, password, email, full_name, phone) ==
  IF Len(username) < 3
    THEN [ok |-> FALSE, msg |-> "Username must be at least 3 characters long",
          db |-> d, seq |-> s]
  ELSE IF Len(password) < 6
    THEN [ok |-> FALSE, msg |-> "Password must be at least 6 characters long",
          db |-> d, seq |-> s]
  ELSE IF \E r \in d["users"] : r.username = username
    THEN [ok |-> FALSE, msg |-> "Username already exists", db |-> d, seq |-> s]
  ELSE
    LET i1 == insert_record(d, s, "users",
                [username |-> username,
                 password_hash |-> hash_password(password),
                 email |-> email, full_name |-> full_name, phone |-> phone,
                 created_at |-> "now", updated_at |-> "now"])
        i2 == insert_record(i1.db, i1.seq, "user_preferences",
                [user_id |-> i1.id, theme |-> "light", currency |-> "INR",
                 risk_tolerance |-> "moderate", monthly_income |-> Some(0),
                 monthly_expenses |-> Some(0)])
    IN IF i1.err # ""
         THEN [ok |-> FALSE, msg |-> "Registration failed: " \o i1.err,
               db |-> i1.db, seq |-> i1.seq]
       ELSE IF i2.err # ""
         THEN [ok |-> FALSE, msg |-> "Registration failed: " \o i2.err,
               db |-> i2.db, seq |-> i2.seq]
       ELSE [ok |-> TRUE, msg |-> "User registered successfully!",
             db |-> i2.db, seq |-> i2.seq]

\* Python's `x or default` on a nullable text / numeric column.
OrText(v, default) == IF v = NULL \/ v[1] = "" THEN default ELSE v[1]
OrNum(v, default) == IF v = NULL \/ v[1] = 0 THEN default ELSE v[1]

\* users u LEFT JOIN user_preferences p ON u.id = p.user_id
\* WHERE u.username = ? AND u.password_hash = ?
auth_rows(d, username, password_hash) ==
  LET us == {u \in d["users"] : u.username = username
                                /\ u.password_hash = password_hash}
      joined(u) ==
        LET ps == {p \in d["user_preferences"] : p.user_id = u.id}
        IN IF ps = {}
             THEN {[id |-> u.id, username |-> u.username,
                    email |-> Some(u.email), full_name |-> Some(u.full_name),
                    phone |-> Some(u.phone), risk_tolerance |-> NULL,
                    investment_goal |-> NULL, monthly_income |-> NULL,
                    monthly_expenses |-> NULL]}
             ELSE {[id |-> u.id, username |-> u.username,
                    email |-> Some(u.email), full_name |-> Some(u.full_name),
                    phone |-> Some(u.phone),
                    risk_tolerance |-> Some(p.risk_tolerance),
                    investment_goal |-> p.investment_goal,
                    monthly_income |-> p.monthly_income,
                    monthly_expenses |-> p.monthly_expenses] : p \in ps}
  IN UNION {joined(u) : u \in us}

\* authenticate_user that hashes the password without the salt.
authenticate_user_unsalted(d, username, password) ==
  LET result == auth_rows(d, username, "sha256(" \o password \o ")")
  IN IF result = {} THEN NULL
     ELSE LET user_data == CHOOSE r \in result : TRUE
          IN Some([id |-> user_data.id,
                   username |-> user_data.username,
                   email |-> OrText(user_data.email, ""),
                   full_name |-> OrText(user_data.full_name, ""),
                   phone |-> OrText(user_data.phone, ""),
                   risk_tolerance |-> OrText(user_data.risk_tolerance, "moderate"),
                   investment_goal |-> OrText(user_data.investment_goal, ""),
                   monthly_income |-> OrNum(user_data.monthly_income, 0),
                   monthly_expenses |-> OrNum(user_data.monthly_expenses, 0)])

\* authenticate_user: the user dict as <<dict>>, or NULL for None.
authenticate_user(d, username, password) ==
  LET result == auth_rows(d, username, hash_password(password))
  IN IF result = {} THEN NULL
     ELSE LET user_data == CHOOSE r \in result : TRUE
          IN Some([id |-> user_data.id,
                   username |-> user_data.username,
                   email |-> OrText(user_data.email, ""),
                   full_name |-> OrText(user_data.full_name, ""),
                   phone |-> OrText(user_data.phone, ""),
                   risk_tolerance |-> OrText(user_data.risk_tolerance, "moderate"),
                   investment_goal |-> OrText(user_data.investment_goal, ""),
                   monthly_income |-> OrNum(user_data.monthly_income, 0),
                   monthly_expenses |-> OrNum(user_data.monthly_expenses, 0)])

\* The entries of a field map whose keys are in fields.
Restrict(data, fields) == [k \in (DOMAIN data) \cap fields |-> data[k]]

\* user_fields that also lets the identity columns through.
user_fields_with_identity == {"email", "full_name", "phone", "username",
                              "password_hash"}

user_fields == {"email", "full_name", "phone"}
pref_fields == {"risk_tolerance", "investment_goal", "monthly_income",
                "monthly_expenses"}

\* update_user_profile that creates a preferences row without looking for an
\* existing one.
update_user_profile_always_insert(d, s, user_id, profile_data) ==
  LET user_updates == Restrict(profile_data, user_fields)
      d1 == IF DOMAIN user_updates # {}
              THEN update_record(d, "users", user_id, user_updates).db
              ELSE d
      pref_updates == Restrict(profile_data, pref_fields)
      ins == insert_record(d1, s, "user_preferences",
               [k \in (DOMAIN pref_updates) \cup {"user_id"} |->
                  IF k = "user_id" THEN user_id ELSE pref_updates[k]])
  IN IF DOMAIN pref_updates = {}
       THEN [ok |-> TRUE, msg |-> "Profile updated successfully!",
             db |-> d1, seq |-> s]
     ELSE IF ins.err # ""
       THEN [ok |-> FALSE, msg |-> "Failed to update profile: " \o ins.err,
             db |-> ins.db, seq |-> ins.seq]
     ELSE [ok |-> TRUE, msg |-> "Profile updated successfully!",
           db |-> ins.db, seq |-> ins.seq]

\* update_user_profile: the return value of update_record is not looked at.
update_user_profile(d, s, user_id, profile_data) ==
  LET user_updates == Restrict(profile_data, user_fields)
      d1 == IF DOMAIN user_updates # {}
              THEN update_record(d, "users", user_id, user_updates).db
              ELSE d
      pref_updates == Restrict(profile_data, pref_fields)
      existing_prefs == {p \in d1["user_preferences"] : p.user_id = user_id}
  IN IF DOMAIN pref_updates = {}
       THEN [ok |-> TRUE, msg |-> "Profile updated successfully!",
             db |-> d1, seq |-> s]
     ELSE IF existing_prefs # {}
       THEN LET pref_id == (CHOOSE p \in existing_prefs :
                              \A q \in existing_prefs : p.id <= q.id).id
            IN [ok |-> TRUE, msg |-> "Profile updated successfully!",
                db |-> update_record(d1, "user_preferences", pref_id,
                                     pref_updates).db,
                seq |-> s]
     ELSE LET ins == insert_record(d1, s, "user_preferences",
                       [k \in (DOMAIN pref_updates) \cup {"user_id"} |->
                          IF k = "user_id" THEN user_id ELSE pref_updates[k]])
          IN IF ins.err # ""
               THEN [ok |-> FALSE,
                     msg |-> "Failed to update profile: " \o ins.err,
                     db |-> ins.db, seq |-> ins.seq]
               ELSE [ok |-> TRUE, msg |-> "Profile updated successfully!",
                     db |-> ins.db, seq |-> ins.seq]

\* SELECT id FROM users WHERE id = ? AND password_hash = ?
verify_password(d, user_id, password) ==
  \E u \in d["users"] : u.id = user_id
                        /\ u.password_hash = hash_password(password)

\* change_password that validates the new password first.
change_password_length_first(d, user_id, current_password, new_password) ==
  IF Len(new_password) < 6
    THEN [ok |-> FALSE,
          msg |-> "New password must be at least 6 characters long", db |-> d]
  ELSE IF ~verify_password(d, user_id, current_password)
    THEN [ok |-> FALSE, msg |-> "Current password is incorrect", db |-> d]
  ELSE LET u == update_record(d, "users", user_id,
                  [password_hash |-> hash_password(new_password)])
       IN IF u.ok
            THEN [ok |-> TRUE, msg |-> "Password changed successfully!",
                  db |-> u.db]
            ELSE [ok |-> FALSE, msg |-> "Failed to change password",
                  db |-> u.db]

change_password(d, user_id, current_password, new_password) ==
  IF ~verify_password(d, user_id, current_password)
    THEN [ok |-> FALSE, msg |-> "Current password is incorrect", db |-> d]
  ELSE IF Len(new_password) < 6
    THEN [ok |-> FALSE,
          msg |-> "New password must be at least 6 characters long", db |-> d]
  ELSE LET u == update_record(d, "users", user_id,
                  [password_hash |-> hash_password(new_password)])
       IN IF u.ok
            THEN [ok |-> TRUE, msg |-> "Password changed successfully!",
                  db |-> u.db]
            ELSE [ok |-> FALSE, msg |-> "Failed to change password",
                  db |-> u.db]

\* The order in which delete_user_account empties the tables.
delete_tables == <<"ai_interactions", "portfolio_snapshots", "transactions",
                   "goals", "expenses", "stocks", "mutual_funds",
                   "user_preferences", "users">>

\* for table in tables: DELETE FROM table WHERE user_id = ?   (from the
\* i-th table on; each statement commits, the first error ends the loop)
RECURSIVE delete_loop(_, _, _)
delete_loop(d, i, user_id) ==
  IF i > Len(delete_tables) THEN [err |-> "", db |-> d]
  ELSE LET r == delete_where_user_id(d, delete_tables[i], user_id)
       IN IF r.err # "" THEN r ELSE delete_loop(r.db, i + 1, user_id)

\* delete_user_account that checks the password only after the loop.
delete_then_verify(d, user_id, password) ==
  LET r == delete_loop(d, 1, user_id)
  IN IF ~verify_password(d, user_id, password)
       THEN [ok |-> FALSE, msg |-> "Password is incorrect", db |-> r.db]
     ELSE IF r.err # ""
       THEN [ok |-> FALSE, msg |-> "Failed to delete account: " \o r.err,
             db |-> r.db]
     ELSE [ok |-> TRUE, msg |-> "Account deleted successfully", db |-> r.db]

delete_user_account(d, user_id, password) ==
  IF ~verify_password(d, user_id, password)
    THEN [ok |-> FALSE, msg |-> "Password is incorrect", db |-> d]
  ELSE LET r == delete_loop(d, 1, user_id)
       IN IF r.err # ""
            THEN [ok |-> FALSE, msg |-> "Failed to delete account: " \o r.err,
                  db |-> r.db]
            ELSE [ok |-> TRUE, msg |-> "Account deleted successfully",
                  db |-> r.db]

(* ------------------------------ user reads ----------------------------- *)
\* SELECT * FROM table WHERE user_id = ?
select_by_user(d, table, user_id) == {r \in d[table] : r.user_id = user_id}

\* SUM over rows of the product of the named columns.
RECURSIVE Product(_, _, _)
Product(r, cols, i) ==
  IF i > Len(cols) THEN 1 ELSE r[cols[i]] * Product(r, cols, i + 1)

RECURSIVE SumOf(_, _)
SumOf(rows, cols) ==
  IF rows = {} THEN 0
  ELSE LET r == CHOOSE x \in rows : TRUE
       IN Product(r, cols, 1) + SumOf(rows \ {r}, cols)

\* get_user_stats with the stocks total left out of total_investment.
get_user_stats_funds_only(d, user_id) ==
  LET mf_count == Cardinality({r \in d["mutual_funds"] : r.user_id = user_id})
      stocks_count == Cardinality({r \in d["stocks"] : r.user_id = user_id})
      expenses_count == Cardinality({r \in d["expenses"] : r.user_id = user_id})
      goals_count == Cardinality({r \in d["goals"] : r.user_id = user_id})
      mf_total == SumOf({r \in d["mutual_funds"] : r.user_id = user_id},
                        <<"amount_invested">>)
      stocks_total == SumOf({r \in d["stocks"] : r.user_id = user_id},
                            <<"quantity", "purchase_price">>)
  IN [mutual_funds_count |-> mf_count, stocks_count |-> stocks_count,
      expenses_count |-> expenses_count, goals_count |-> goals_count,
      total_mf_investment |-> mf_total,
      total_stocks_investment |-> stocks_total,
      total_investment |-> mf_total]

\* get_user_stats with the stocks total summed over every user's rows.
get_user_stats_unscoped(d, user_id) ==
  LET mf_count == Cardinality({r \in d["mutual_funds"] : r.user_id = user_id})
      stocks_count == Cardinality({r \in d["stocks"] : r.user_id = user_id})
      expenses_count == Cardinality({r \in d["expenses"] : r.user_id = user_id})
      goals_count == Cardinality({r \in d["goals"] : r.user_id = user_id})
      mf_total == SumOf({r \in d["mutual_funds"] : r.user_id = user_id},
                        <<"amount_invested">>)
      stocks_total == SumOf(d["stocks"], <<"quantity", "purchase_price">>)
  IN [mutual_funds_count |-> mf_count, stocks_count |-> stocks_count,
      expenses_count |-> expenses_count, goals_count |-> goals_count,
      total_mf_investment |-> mf_total,
      total_stocks_investment |-> stocks_total,
      total_investment |-> mf_total + stocks_total]

get_user_stats(d, user_id) ==
  LET mf_count == Cardinality({r \in d["mutual_funds"] : r.user_id = user_id})
      stocks_count == Cardinality({r \in d["stocks"] : r.user_id = user_id})
      expenses_count == Cardinality({r \in d["expenses"] : r.user_id = user_id})
      goals_count == Cardinality({r \in d["goals"] : r.user_id = user_id})
      mf_total == SumOf({r \in d["mutual_funds"] : r.user_id = user_id},
                        <<"amount_invested">>)
      stocks_total == SumOf({r \in d["stocks"] : r.user_id = user_id},
                            <<"quantity", "purchase_price">>)
  IN [mutual_funds_count |-> mf_count, stocks_count |-> stocks_count,
      expenses_count |-> expenses_count, goals_count |-> goals_count,
      total_mf_investment |-> mf_total,
      total_stocks_investment |-> stocks_total,
      total_investment |-> mf_total + stocks_total]

\* The day date('now') falls on.
Today == 100

\* ... WHERE user_id = ? GROUP BY col: one result row per group.
GroupBy(rows, col) == {{r \in rows : r[col] = v} : v \in {r[col] : r \in rows}}

get_user_portfolio_summary(d, user_id) ==
  LET mf == {r \in d["mutual_funds"] : r.user_id = user_id}
      st == {r \in d["stocks"] : r.user_id = user_id}
      ex == {r \in d["expenses"] : r.user_id = user_id /\ r.date >= Today - 30}
      go == {r \in d["goals"] : r.user_id = user_id}
      key(g, col) == (CHOOSE r \in g : TRUE)[col]
  IN [mutual_funds |->
        {[total_funds |-> Cardinality(g),
          total_invested |-> SumOf(g, <<"amount_invested">>),
          total_current_value |-> SumOf(g, <<"current_value">>),
          category |-> key(g, "category")] : g \in GroupBy(mf, "category")},
      stocks |->
        {[total_stocks |-> Cardinality(g),
          total_invested |-> SumOf(g, <<"quantity", "purchase_price">>),
          total_current_value |-> SumOf(g, <<"quantity", "current_price">>),
          sector |-> key(g, "sector")] : g \in GroupBy(st, "sector")},
      expenses |->
        {[category |-> key(g, "category"),
          total_expenses |-> SumOf({r \in g : r.type = "expense"}, <<"amount">>),
          total_income |-> SumOf({r \in g : r.type = "income"}, <<"amount">>)]
           : g \in GroupBy(ex, "category")},
      goals |->
        {[total_goals |-> Cardinality(g),
          total_target |-> SumOf(g, <<"target_amount">>),
          total_current |-> SumOf(g, <<"current_amount">>),
          status |-> key(g, "status")] : g \in GroupBy(go, "status")}]

get_full_portfolio_data(d, user_id) ==
  [mutual_funds |-> select_by_user(d, "mutual_funds", user_id),
   stocks |-> select_by_user(d, "stocks", user_id),
   expenses |-> select_by_user(d, "expenses", user_id),
   goals |-> select_by_user(d, "goals", user_id)]

\* SELECT question, response, created_at FROM ai_interactions WHERE user_id = ?
get_ai_history(d, user_id) ==
  {[question |-> r.question, response |-> r.response]
     : r \in {x \in d["ai_interactions"] : x.user_id = user_id}}

(* ------------------------------ the system ----------------------------- *)
\* ret is the last call: its name, its arguments and what it returned.
Ret(op, uid, username, password, data, ok, msg) ==
  [op |-> op, uid |-> uid, username |-> username, password |-> password,
   data |-> data, ok |-> ok, msg |-> msg]

EmptyDb == [t \in Tables |-> {}]
ZeroSeq == [t \in Tables |-> 0]

\* The credential of a deployment whose environment sets none.
DEEPSEEK_API_KEY == ""

\* The advisor after construction: its credential, and the number of HTTP
\* requests it has posted so far.
DeepSeekAIAdvisor(api_key) ==
  [api_key |-> IF api_key # "" THEN api_key ELSE DEEPSEEK_API_KEY,
   posted |-> 0]

\* st.session_state of a browser session after init_session_state (and the
\* chat view's initialisation of chat_history).
NoSession ==
  [authenticated |-> FALSE, user_data |-> NULL, login_attempts |-> 0,
   chat_history |-> <<>>]

\* The server threads that can be inside a call of the identity manager at
\* the same time, and the record of a thread that is in none.
Procs == {1, 2}

Idle ==
  [op |-> "", pc |-> "idle", username |-> "", password |-> "", uid |-> 0,
   i |-> 0, ok |-> FALSE, msg |-> ""]

NoCalls == [p \in Procs |-> Idle]

Init ==
  /\ db = EmptyDb
  /\ seq = ZeroSeq
  /\ ret = Ret("init", 0, "", "", <<>>, TRUE, "")
  /\ advisor = DeepSeekAIAdvisor(DEEPSEEK_API_KEY)
  /\ session = NoSession
  /\ calls = NoCalls

\* The field maps the profile form, the preferences form and a direct caller
\* hand to update_user_profile.
ProfileInputs ==
  {[email |-> "b@y.io", full_name |-> "Al", phone |-> "555"],
   [risk_tolerance |-> "aggressive", investment_goal |-> Some("retire"),
    monthly_income |-> Some(5000), monthly_expenses |-> Some(3000)],
   [email |-> "b@y.io", username |-> "mallory", password_hash |-> "x",
    monthly_income |-> Some(7000)]}

\* The ids of the users a session can be logged in as.
UserIds == {u.id : u \in db["users"]}

Register ==
  \E username \in Usernames, password \in Passwords :
    LET r == register_user(db, seq, username, password, "", "", "")
    IN /\ db' = r.db
       /\ seq' = r.seq
       /\ UNCHANGED <<advisor, session, calls>>
       /\ ret' = Ret("register", 0, username, password, <<>>, r.ok, r.msg)

UpdateProfile ==
  \E user_id \in UserIds, profile_data \in ProfileInputs :
    LET r == update_user_profile(db, seq, user_id, profile_data)
    IN /\ r.seq["user_preferences"] <= MaxPrefIds
       /\ db' = r.db
       /\ seq' = r.seq
       /\ UNCHANGED <<advisor, session, calls>>
       /\ ret' = Ret("update_profile", user_id, "", "", profile_data,
                     r.ok, r.msg)

ChangePassword ==
  \E user_id \in UserIds, current \in Passwords, new \in Passwords :
    LET r == change_password(db, user_id, current, new)
    IN /\ db' = r.db
       /\ UNCHANGED <<seq, advisor, session, calls>>
       /\ ret' = Ret("change_password", user_id, "", current, new,
                     r.ok, r.msg)

DeleteAccount ==
  \E user_id \in UserIds, password \in Passwords :
    LET r == delete_user_account(db, user_id, password)
    IN /\ db' = r.db
       /\ UNCHANGED <<seq, advisor, session, calls>>
       /\ ret' = Ret("delete_account", user_id, "", password, <<>>,
                     r.ok, r.msg)

Next ==
  \/ Register
  \/ UpdateProfile
  \/ ChangePassword
  \/ DeleteAccount

Spec == Init /\ [][Next]_vars

(* ----------------------- the portfolio of two users -------------------- *)
AssetTables == {"mutual_funds", "stocks", "expenses", "goals",
                "ai_interactions"}

RECURSIVE SumSeq(_, _)
SumSeq(s, ts) ==
  IF ts = {} THEN 0
  ELSE LET t == CHOOSE x \in ts : TRUE IN s[t] + SumSeq(s, ts \ {t})

\* Rows inserted into the asset tables so far.
AssetRows == SumSeq(seq, AssetTables)

\* A form submission that inserts data into table when valid holds; the
\* handler catches the insert's exception and reports it.
Submit(op, user_id, valid, table, data) ==
  LET ins == IF valid THEN insert_record(db, seq, table, data)
             ELSE [err |-> "invalid", db |-> db, seq |-> seq, id |-> 0]
  IN /\ db' = ins.db
     /\ seq' = ins.seq
     /\ UNCHANGED <<advisor, session, calls>>
     /\ ret' = Ret(op, user_id, "", "", ins.id, ins.err = "", ins.err)

FundInputs == {[fund_name |-> "HDFC Top 100", amount |-> 1000,
                category |-> "Equity"],
               [fund_name |-> "SBI Bond", amount |-> 2500,
                category |-> "Debt"],
               [fund_name |-> "", amount |-> 1000, category |-> "Equity"]}

\* MutualFundsManager.render_add_investment, on submit
AddInvestment ==
  \E user_id \in UserIds, in \in FundInputs :
    /\ AssetRows < MaxRows
    /\ Submit("add_investment", user_id,
              in.fund_name # "" /\ in.amount > 0 /\ in.category # "",
              "mutual_funds",
              [user_id |-> user_id, fund_name |-> in.fund_name,
               fund_house |-> NULL, scheme_code |-> NULL, isin |-> NULL,
               amount_invested |-> in.amount, units |-> NULL,
               nav |-> NULL, purchase_date |-> Today,
               category |-> in.category,
               subcategory |-> NULL, expense_ratio |-> NULL,
               fund_manager |-> NULL, risk_level |-> NULL,
               current_value |-> in.amount,
               created_at |-> "now", updated_at |-> "now"])

StockInputs == {[stock_name |-> "Reliance", quantity |-> 10, price |-> 2500],
                [stock_name |-> "", quantity |-> 10, price |-> 2500]}

\* StocksManager.render_add_stock, on submit
AddStock ==
  \E user_id \in UserIds, in \in StockInputs :
    /\ AssetRows < MaxRows
    /\ Submit("add_stock", user_id,
              in.stock_name # "" /\ in.quantity > 0 /\ in.price > 0,
              "stocks",
              [user_id |-> user_id, stock_name |-> in.stock_name,
               symbol |-> NULL, quantity |-> in.quantity,
               purchase_price |-> in.price,
               current_price |-> in.price, purchase_date |-> Today,
               sector |-> "Technology", exchange |-> "NSE", notes |-> NULL,
               created_at |-> "now", updated_at |-> "now"])

ExpenseInputs == {[type |-> "expense", amount |-> 300, date |-> Today],
                  [type |-> "income", amount |-> 5000, date |-> Today - 40]}

\* ExpensesManager.render_add_expense, on submit
AddExpense ==
  \E user_id \in UserIds, in \in ExpenseInputs :
    /\ AssetRows < MaxRows
    /\ Submit("add_expense", user_id, in.amount > 0, "expenses",
              [user_id |-> user_id, category |-> "Other",
               description |-> NULL, amount |-> in.amount,
               date |-> in.date, type |-> in.type,
               payment_method |-> "Cash", tags |-> NULL,
               created_at |-> "now", updated_at |-> "now"])

GoalInputs == {[goal_name |-> "Emergency Fund", target |-> 100000,
                current |-> 25000],
               [goal_name |-> "", target |-> 100000, current |-> 0]}

\* GoalsManager.render_add_goal, on submit
AddGoal ==
  \E user_id \in UserIds, in \in GoalInputs :
    /\ AssetRows < MaxRows
    /\ Submit("add_goal", user_id, in.goal_name # "" /\ in.target > 0,
              "goals",
              [user_id |-> user_id, goal_name |-> in.goal_name,
               description |-> NULL, target_amount |-> in.target,
               current_amount |-> in.current, target_date |-> Today,
               category |-> "Other", priority |-> "Medium",
               monthly_contribution |-> NULL, status |-> "active",
               created_at |-> "now", updated_at |-> "now"])

\* AIChatInterface.store_interaction
StoreInteraction ==
  \E user_id \in UserIds :
    /\ AssetRows < MaxRows
    /\ Submit("store_interaction", user_id, TRUE, "ai_interactions",
              [user_id |-> user_id, question |-> "how am I doing?",
               response |-> "advice", created_at |-> "now"])

InsertOps == {"add_investment", "add_stock", "add_expense", "add_goal",
              "store_interaction"}

\* alice and bob have registered.
TwoUsers ==
  LET a == register_user(EmptyDb, ZeroSeq, "alice", "secret1", "", "", "")
  IN register_user(a.db, a.seq, "bob", "hunter22", "", "", "")

InitPortfolio ==
  /\ db = TwoUsers.db
  /\ seq = TwoUsers.seq
  /\ ret = Ret("register", 0, "bob", "hunter22", <<>>, TwoUsers.ok,
               TwoUsers.msg)
  /\ advisor = DeepSeekAIAdvisor(DEEPSEEK_API_KEY)
  /\ session = NoSession
  /\ calls = NoCalls

NextPortfolio ==
  \/ AddInvestment
  \/ AddStock
  \/ AddExpense
  \/ AddGoal
  \/ StoreInteraction
  \/ DeleteAccount

SpecPortfolio == InitPortfolio /\ [][NextPortfolio]_vars

(* ------------------- the storage gateway under faults ------------------ *)
\* The error sqlite3 raises when the storage itself fails (locked database,
\* I/O error), as opposed to rejecting the statement.
StorageFault == "database is locked"

\* What a gateway method does with one call: raised says whether an
\* exception reaches the caller, error is the sqlite3 error that occurred
\* ("" if none), value is what the method returns when it returns.

\* execute_query with the DELETE ... WHERE user_id = ? statement:
\* except: log, raise.
execute_query(d, table, user_id, fault) ==
  LET r == IF fault THEN [err |-> StorageFault, db |-> d]
           ELSE delete_where_user_id(d, table, user_id)
  IN [raised |-> r.err # "", error |-> r.err, value |-> <<>>, db |-> r.db]

\* insert_record under a possible fault: except: log, raise.
insert_record_call(d, s, table, data, fault) ==
  LET r == IF fault THEN [err |-> StorageFault, db |-> d, seq |-> s, id |-> 0]
           ELSE insert_record(d, s, table, data)
  IN [raised |-> r.err # "", error |-> r.err, value |-> r.id, db |-> r.db,
      seq |-> r.seq]

\* update_record under a possible fault: except: log, return False.
update_record_call(d, table, record_id, data, fault) ==
  LET r == IF fault THEN [ok |-> FALSE, db |-> d]
           ELSE update_record(d, table, record_id, data)
  IN [raised |-> FALSE,
      error |-> IF fault THEN StorageFault
                ELSE IF ~r.ok THEN "no such column" ELSE "",
      value |-> r.ok, db |-> r.db]

\* delete_record: DELETE FROM table WHERE id = ?; except: log, return False.
delete_record(d, table, record_id, fault) ==
  IF fault
    THEN [raised |-> FALSE, error |-> StorageFault, value |-> FALSE, db |-> d]
    ELSE [raised |-> FALSE, error |-> "", value |-> TRUE,
          db |-> [d EXCEPT ![table] = {r \in @ : r.id # record_id}]]

get_dataframe_raising(d, table, user_id, fault) ==
  [raised |-> fault, error |-> IF fault THEN StorageFault ELSE "",
   value |-> IF fault THEN <<>> ELSE select_by_user(d, table, user_id),
   db |-> d]

\* get_dataframe with SELECT * FROM table WHERE user_id = ?:
\* except: log, return pd.DataFrame().
get_dataframe(d, table, user_id, fault) ==
  IF fault
    THEN [raised |-> FALSE, error |-> StorageFault, value |-> {}, db |-> d]
    ELSE [raised |-> FALSE, error |-> "",
          value |-> select_by_user(d, table, user_id), db |-> d]

\* A gateway call as the last call: ok says that the call returned (no
\* exception reached the caller), msg is the storage error that occurred,
\* data the returned value.
GatewayRet(op, table, user_id, r) ==
  Ret(op, user_id, table, "", r.value, ~r.raised, r.error)

GatewayInserts ==
  {[table |-> "goals",
    data |-> [user_id |-> 1, goal_name |-> "Emergency Fund",
              target_amount |-> 100000, current_amount |-> 25000]],
   [table |-> "stocks",
    data |-> [user_id |-> 2, stock_name |-> "Reliance", quantity |-> 10,
              purchase_price |-> 2500, current_price |-> 2500]],
   [table |-> "users",
    data |-> [username |-> "alice", password_hash |-> hash_password("x")]]}

GatewayUpdates ==
  {[table |-> "goals", id |-> 1, data |-> [current_amount |-> 30000]],
   [table |-> "stocks", id |-> 1, data |-> [current_price |-> 2600]],
   [table |-> "user_preferences", id |-> 1,
    data |-> [risk_tolerance |-> "aggressive"]]}

CallExecuteQuery ==
  \E table \in {"goals", "stocks", "users"}, user_id \in UserIds,
     fault \in BOOLEAN :
    LET r == execute_query(db, table, user_id, fault)
    IN /\ db' = r.db
       /\ UNCHANGED <<seq, advisor, session, calls>>
       /\ ret' = GatewayRet("execute_query", table, user_id, r)

CallInsertRecord ==
  \E in \in GatewayInserts, fault \in BOOLEAN :
    LET r == insert_record_call(db, seq, in.table, in.data, fault)
    IN /\ AssetRows < MaxRows
       /\ db' = r.db
       /\ seq' = r.seq
       /\ UNCHANGED <<advisor, session, calls>>
       /\ ret' = GatewayRet("insert_record", in.table, 0, r)

CallUpdateRecord ==
  \E in \in GatewayUpdates, fault \in BOOLEAN :
    LET r == update_record_call(db, in.table, in.id, in.data, fault)
    IN /\ db' = r.db
       /\ UNCHANGED <<seq, advisor, session, calls>>
       /\ ret' = GatewayRet("update_record", in.table, in.id, r)

CallDeleteRecord ==
  \E table \in {"goals", "stocks"}, record_id \in 1..MaxRows,
     fault \in BOOLEAN :
    LET r == delete_record(db, table, record_id, fault)
    IN /\ db' = r.db
       /\ UNCHANGED <<seq, advisor, session, calls>>
       /\ ret' = GatewayRet("delete_record", table, record_id, r)

CallGetDataframe ==
  \E table \in {"goals", "stocks"}, user_id \in UserIds, fault \in BOOLEAN :
    LET r == get_dataframe(db, table, user_id, fault)
    IN /\ db' = r.db
       /\ UNCHANGED <<seq, advisor, session, calls>>
       /\ ret' = GatewayRet("get_dataframe", table, user_id, r)

NextGateway ==
  \/ CallExecuteQuery
  \/ CallInsertRecord
  \/ CallUpdateRecord
  \/ CallDeleteRecord
  \/ CallGetDataframe

SpecGateway == InitPortfolio /\ [][NextGateway]_vars

(* ----------------------------- the advisor ----------------------------- *)
MaxPosts == 3

ApiKeys == {"", "sk-live"}

\* The values an advisory method can hand back.
PyStr(s) == [type |-> "str", value |-> s]
PyNone == [type |-> "NoneType", value |-> ""]

\* The body of a 200 response: whether it decodes as JSON, and the decoded
\* object as far as result['choices'][0]['message']['content'] reads it.
\* A missing key is NULL, a present one Some(v).
JsonBody(choices) == [valid_json |-> TRUE, choices |-> choices]
Choice(content) == [message |-> Some([content |-> content])]

Bodies ==
  {[valid_json |-> FALSE, choices |-> NULL],
   JsonBody(NULL),
   JsonBody(Some(<<>>)),
   JsonBody(Some(<<[message |-> NULL]>>)),
   JsonBody(Some(<<Choice(NULL)>>)),
   JsonBody(Some(<<Choice(Some(PyStr("Diversify into index funds.")))>>)),
   JsonBody(Some(<<Choice(Some(PyNone))>>))}

\* The outcomes of requests.post: an exception (timeout, connection error)
\* or a response with a status and a body.
Responses ==
  {[raises |-> e, status_code |-> 0, body |-> JsonBody(NULL)] :
     e \in {"Read timed out.", "Connection refused"}}
  \cup {[raises |-> "", status_code |-> c, body |-> JsonBody(NULL)] :
          c \in {401, 500}}
  \cup {[raises |-> "", status_code |-> 200, body |-> b] : b \in Bodies}

\* response.json() followed by result['choices'][0]['message']['content'].
result_content(body) ==
  IF ~body.valid_json
    THEN [raises |-> "Expecting value: line 1 column 1 (char 0)",
          value |-> PyNone]
  ELSE IF body.choices = NULL
    THEN [raises |-> "'choices'", value |-> PyNone]
  ELSE IF Len(body.choices[1]) = 0
    THEN [raises |-> "list index out of range", value |-> PyNone]
  ELSE IF body.choices[1][1].message = NULL
    THEN [raises |-> "'message'", value |-> PyNone]
  ELSE IF body.choices[1][1].message[1].content = NULL
    THEN [raises |-> "'content'", value |-> PyNone]
  ELSE [raises |-> "", value |-> body.choices[1][1].message[1].content[1]]

NotAvailable ==
  "AI advisor is not available. Please configure your DeepSeek API key."

make_api_call_unguarded(a, messages, response) ==
  [raised |-> FALSE, posted |-> a.posted + 1,
   value |-> IF response.raises = "" /\ response.status_code = 200
                  /\ result_content(response.body).raises = ""
               THEN result_content(response.body).value
               ELSE PyStr("Error connecting to AI service")]

\* _make_api_call: returns the value handed back, whether an exception
\* leaves the method, and the advisor's count of posted requests.
make_api_call(a, messages, response) ==
  IF a.api_key = ""
    THEN [raised |-> FALSE, posted |-> a.posted,
          value |-> PyStr(NotAvailable)]
    ELSE
      [raised |-> FALSE, posted |-> a.posted + 1,
       value |->
         IF response.raises # ""
           THEN PyStr("Error connecting to AI service: " \o response.raises)
         ELSE IF response.status_code = 200
           THEN LET c == result_content(response.body)
                IN IF c.raises # ""
                     THEN PyStr("Error connecting to AI service: "
                                  \o c.raises)
                     ELSE c.value
         ELSE PyStr("AI service temporarily unavailable. Error: "
                      \o ToString(response.status_code))]

\* The advisory methods build their messages (a system prompt, for the chat
\* the last five history entries, and the user's text) and return what
\* _make_api_call returns.
analyze_portfolio(a, response) ==
  make_api_call(a, <<"system", "user">>, response)
investment_recommendation(a, response) ==
  make_api_call(a, <<"system", "user">>, response)
expense_analysis(a, response) ==
  make_api_call(a, <<"system", "user">>, response)
goal_planning(a, response) ==
  make_api_call(a, <<"system", "user">>, response)
market_insights(a, response) ==
  make_api_call(a, <<"system", "user">>, response)
tax_optimization(a, response) ==
  make_api_call(a, <<"system", "user">>, response)
risk_assessment(a, response) ==
  make_api_call(a, <<"system", "user">>, response)

\* The Python slice s[-n:].
slice_last(s, n) ==
  IF Len(s) <= n THEN s ELSE SubSeq(s, Len(s) - n + 1, Len(s))

\* One message of the request: a role and a content.
Message(role, content) == [role |-> role, content |-> content]

\* The system message of the chat, whatever the portfolio context.
SystemMessage == Message("system", PyStr("You are a friendly and knowledgeable financial advisor."))

\* The messages chat_with_advisor posts: the system message, the last five
\* entries of the history handed in, the user's message.
chat_messages(user_message, conversation_history) ==
  <<SystemMessage>> \o slice_last(conversation_history, 5)
    \o <<Message("user", PyStr(user_message))>>

chat_with_advisor(a, user_message, conversation_history, response) ==
  make_api_call(a, chat_messages(user_message, conversation_history),
                response)

AdvisoryOps ==
  {"analyze_portfolio", "investment_recommendation", "expense_analysis",
   "goal_planning", "market_insights", "tax_optimization",
   "risk_assessment", "chat_with_advisor"}

\* One advisory call with outcome r when the network answers response: ok
\* says that the call returned, data holds the network outcome and the value
\* handed back.
Advise(op, response, r) ==
  /\ r.posted <= MaxPosts
  /\ advisor' = [advisor EXCEPT !.posted = r.posted]
  /\ ret' = Ret(op, 0, "", "", [response |-> response, value |-> r.value],
                ~r.raised, "")
  /\ UNCHANGED <<db, seq, session, calls>>

AnalyzePortfolio ==
  \E response \in Responses :
    Advise("analyze_portfolio", response, analyze_portfolio(advisor, response))

InvestmentRecommendation ==
  \E response \in Responses :
    Advise("investment_recommendation", response,
           investment_recommendation(advisor, response))

ExpenseAnalysis ==
  \E response \in Responses :
    Advise("expense_analysis", response, expense_analysis(advisor, response))

GoalPlanning ==
  \E response \in Responses :
    Advise("goal_planning", response, goal_planning(advisor, response))

MarketInsights ==
  \E response \in Responses :
    Advise("market_insights", response, market_insights(advisor, response))

TaxOptimization ==
  \E response \in Responses :
    Advise("tax_optimization", response, tax_optimization(advisor, response))

RiskAssessment ==
  \E response \in Responses :
    Advise("risk_assessment", response, risk_assessment(advisor, response))

ChatWithAdvisor ==
  \E response \in Responses,
     conversation_history \in
       {<<>>, <<Message("user", PyStr("hello")),
                Message("assistant", PyStr("Hello!"))>>} :
    Advise("chat_with_advisor", response,
           chat_with_advisor(advisor, "Should I invest in ELSS?",
                             conversation_history, response))

InitAdvisor ==
  /\ db = TwoUsers.db
  /\ seq = TwoUsers.seq
  /\ ret = Ret("init", 0, "", "", <<>>, TRUE, "")
  /\ advisor \in {DeepSeekAIAdvisor(k) : k \in ApiKeys}
  /\ session = NoSession
  /\ calls = NoCalls

NextAdvisor ==
  \/ AnalyzePortfolio
  \/ InvestmentRecommendation
  \/ ExpenseAnalysis
  \/ GoalPlanning
  \/ MarketInsights
  \/ TaxOptimization
  \/ RiskAssessment
  \/ ChatWithAdvisor

SpecAdvisor == InitAdvisor /\ [][NextAdvisor]_vars

(* ------------------------------ file import ---------------------------- *)
\* A cell of an uploaded sheet holds a number or a text (one that does not
\* spell a number).
Num(n) == [num |-> Some(n), text |-> ""]
Txt(s) == [num |-> NULL, text |-> s]

RECURSIVE lstrip(_)
lstrip(s) ==
  IF Len(s) > 0 /\ SubSeq(s, 1, 1) = " "
    THEN lstrip(SubSeq(s, 2, Len(s))) ELSE s

RECURSIVE rstrip(_)
rstrip(s) ==
  IF Len(s) > 0 /\ SubSeq(s, Len(s), Len(s)) = " "
    THEN rstrip(SubSeq(s, 1, Len(s) - 1)) ELSE s

\* str(cell).strip()
str_strip(cell) ==
  rstrip(lstrip(IF cell.num = NULL THEN cell.text ELSE ToString(cell.num[1])))

\* float(cell): the number, or ValueError.
py_float(cell) ==
  IF cell.num # NULL THEN [raises |-> "", value |-> cell.num[1]]
  ELSE [raises |-> "could not convert string to float: '" \o cell.text \o "'",
        value |-> 0]

\* int(cell): the number, or ValueError.
py_int(cell) ==
  IF cell.num # NULL THEN [raises |-> "", value |-> cell.num[1]]
  ELSE [raises |-> "invalid literal for int() with base 10: '"
                     \o cell.text \o "'",
        value |-> 0]

\* The texts pd.to_datetime parses.
DateTexts == {"2024-01-15"}

\* pd.to_datetime(cell).date().isoformat(): the ISO date, or an exception.
to_isoformat(cell) ==
  IF cell.text \in DateTexts THEN [raises |-> "", value |-> cell.text]
  ELSE [raises |-> "Unknown datetime string format, unable to parse: "
                     \o cell.text,
        value |-> ""]

import_investment_data_unseeded(user_id, row) ==
  LET amount == py_float(row.amount)
      date == to_isoformat(row.purchase_date)
  IN IF amount.raises # "" THEN [raises |-> amount.raises, data |-> <<>>]
     ELSE IF date.raises # "" THEN [raises |-> date.raises, data |-> <<>>]
     ELSE [raises |-> "",
           data |-> [user_id |-> user_id,
                     fund_name |-> str_strip(row.fund_name),
                     amount_invested |-> amount.value,
                     purchase_date |-> date.value,
                     category |-> "Equity"]]

\* The investment_data dict the fund import builds from one sheet row (no
\* optional column mapped), or the exception a conversion raises.
import_investment_data(user_id, row) ==
  LET amount == py_float(row.amount)
      date == to_isoformat(row.purchase_date)
  IN IF amount.raises # "" THEN [raises |-> amount.raises, data |-> <<>>]
     ELSE IF date.raises # "" THEN [raises |-> date.raises, data |-> <<>>]
     ELSE [raises |-> "",
           data |-> [user_id |-> user_id,
                     fund_name |-> str_strip(row.fund_name),
                     amount_invested |-> amount.value,
                     purchase_date |-> date.value,
                     current_value |-> amount.value,
                     created_at |-> "now", updated_at |-> "now",
                     category |-> "Equity"]]

\* The stock_data dict the stock import builds from one sheet row.
import_stock_data(user_id, row) ==
  LET quantity == py_int(row.quantity)
      price == py_float(row.price)
      date == to_isoformat(row.purchase_date)
  IN IF quantity.raises # "" THEN [raises |-> quantity.raises, data |-> <<>>]
     ELSE IF price.raises # "" THEN [raises |-> price.raises, data |-> <<>>]
     ELSE IF date.raises # "" THEN [raises |-> date.raises, data |-> <<>>]
     ELSE [raises |-> "",
           data |-> [user_id |-> user_id,
                     stock_name |-> str_strip(row.stock_name),
                     quantity |-> quantity.value,
                     purchase_price |-> price.value,
                     current_price |-> price.value,
                     purchase_date |-> date.value,
                     created_at |-> "now", updated_at |-> "now",
                     sector |-> "Technology"]]

\* for idx, row in df.iterrows(): try: build the dict, insert_record;
\* except: note the error and go on.  ids[i] is the id row i was inserted
\* under, 0 if it was not inserted.
RECURSIVE import_loop(_, _, _, _, _, _, _)
import_loop(d, s, table, user_id, file, i, ids) ==
  IF i > Len(file) THEN [db |-> d, seq |-> s, ids |-> ids]
  ELSE
    LET c == IF table = "mutual_funds"
               THEN import_investment_data(user_id, file[i])
               ELSE import_stock_data(user_id, file[i])
        ins == IF c.raises # ""
                 THEN [err |-> c.raises, db |-> d, seq |-> s, id |-> 0]
                 ELSE insert_record(d, s, table, c.data)
    IN import_loop(ins.db, ins.seq, table, user_id, file, i + 1,
                   Append(ids, IF ins.err = "" THEN ins.id ELSE 0))

AxisRow ==
  [fund_name |-> Txt(" Axis Bluechip "), amount |-> Num(5000),
   purchase_date |-> Txt("2024-01-15")]

FundRows ==
  {AxisRow,
   [AxisRow EXCEPT !.fund_name = Txt("  ")],
   [AxisRow EXCEPT !.amount = Num(0)],
   [AxisRow EXCEPT !.amount = Num(-500)],
   [AxisRow EXCEPT !.amount = Txt("n/a")],
   [AxisRow EXCEPT !.purchase_date = Txt("soon")]}

\* Uploaded sheets: one row, or a row followed by a well-formed one.
FundFiles == {<<r>> : r \in FundRows} \cup {<<r, AxisRow>> : r \in FundRows}

TcsRow ==
  [stock_name |-> Txt("TCS"), quantity |-> Num(5), price |-> Num(3000),
   purchase_date |-> Txt("2024-01-15")]

StockRows ==
  {TcsRow,
   [TcsRow EXCEPT !.stock_name = Txt(" ")],
   [TcsRow EXCEPT !.quantity = Num(0)],
   [TcsRow EXCEPT !.price = Num(-10)],
   [TcsRow EXCEPT !.quantity = Txt("ten")],
   [TcsRow EXCEPT !.purchase_date = Txt("soon")]}

StockFiles == {<<r>> : r \in StockRows} \cup {<<r, TcsRow>> : r \in StockRows}

\* The Import Data button: data holds the sheet and the ids its rows were
\* inserted under.
Import(op, table, user_id, file) ==
  LET r == import_loop(db, seq, table, user_id, file, 1, <<>>)
  IN /\ AssetRows + Len(file) <= MaxRows
     /\ db' = r.db
     /\ seq' = r.seq
     /\ UNCHANGED <<advisor, session, calls>>
     /\ ret' = Ret(op, user_id, "", "", [file |-> file, ids |-> r.ids],
                   TRUE, "")

\* MutualFundsManager.render_import_data, on Import Data
ImportFunds ==
  \E user_id \in UserIds, file \in FundFiles :
    Import("import_funds", "mutual_funds", user_id, file)

\* StocksManager.render_import_data, on Import Data
ImportStocks ==
  \E user_id \in UserIds, file \in StockFiles :
    Import("import_stocks", "stocks", user_id, file)

NextHoldings ==
  \/ AddInvestment
  \/ ImportFunds
  \/ AddStock
  \/ ImportStocks
  \/ DeleteAccount

SpecHoldings == InitPortfolio /\ [][NextHoldings]_vars

(* ----------------------------- goal progress --------------------------- *)
\* A progress percentage in tenths of a percent (the views print one
\* decimal), or the exception the division raises.
Progress(current_amount, target_amount) ==
  [raises |-> "", tenths |-> (current_amount * 1000) \div target_amount]

ZeroDivisionError == [raises |-> "float division by zero", tenths |-> 0]

\* goals view: (current / target) * 100 if target > 0 else 0
view_goal_progress(goal) ==
  IF goal.target_amount > 0
    THEN Progress(goal.current_amount, goal.target_amount)
    ELSE [raises |-> "", tenths |-> 0]

\* dashboard: (current / target) * 100 if target > 0 else 0
dashboard_goal_progress(goal) ==
  IF goal.target_amount > 0
    THEN Progress(goal.current_amount, goal.target_amount)
    ELSE [raises |-> "", tenths |-> 0]

\* advisory context builder: (current / target) * 100
context_goal_progress(goal) ==
  IF goal.target_amount = 0 THEN ZeroDivisionError
  ELSE Progress(goal.current_amount, goal.target_amount)

\* goals summary: (current / target) * 100
summary_goal_progress(goal) ==
  IF goal.target_amount = 0 THEN ZeroDivisionError
  ELSE Progress(goal.current_amount, goal.target_amount)

\* The amounts a goals row can hold (REAL columns without a CHECK); all are
\* multiples that make the tenths exact.
TargetAmounts == {0, 1000, 2000, 5000}
CurrentAmounts == {0, 500, 1000, 1500, 2500, 5000, 6000}

\* The databases in which alice has one goal.
GoalGrid ==
  {insert_record(TwoUsers.db, TwoUsers.seq, "goals",
                 [user_id |-> 1, goal_name |-> "Car", target_amount |-> t,
                  current_amount |-> c]) :
     t \in TargetAmounts, c \in CurrentAmounts}

\* One site having computed the progress of each goal of the user: data
\* maps each goal to its outcome, ok says that no computation raised.
Compute(op, user_id, outcomes) ==
  /\ ret' = Ret(op, user_id, "", "", outcomes,
                \A goal \in DOMAIN outcomes : outcomes[goal].raises = "", "")
  /\ UNCHANGED <<db, seq, advisor, session, calls>>

ViewGoals ==
  \E user_id \in UserIds :
    Compute("render_view_goals", user_id,
            [goal \in select_by_user(db, "goals", user_id) |->
               view_goal_progress(goal)])

Dashboard ==
  \E user_id \in UserIds :
    Compute("render_dashboard", user_id,
            [goal \in select_by_user(db, "goals", user_id) |->
               dashboard_goal_progress(goal)])

PreparePortfolioContext ==
  \E user_id \in UserIds :
    Compute("prepare_portfolio_context", user_id,
            [goal \in select_by_user(db, "goals", user_id) |->
               context_goal_progress(goal)])

SummarizeGoals ==
  \E user_id \in UserIds :
    Compute("summarize_goals", user_id,
            [goal \in select_by_user(db, "goals", user_id) |->
               summary_goal_progress(goal)])

ProgressOps ==
  {"render_view_goals", "render_dashboard", "prepare_portfolio_context",
   "summarize_goals"}

InitProgress ==
  /\ \E g \in GoalGrid : db = g.db /\ seq = g.seq
  /\ ret = Ret("init", 0, "", "", <<>>, TRUE, "")
  /\ advisor = DeepSeekAIAdvisor(DEEPSEEK_API_KEY)
  /\ session = NoSession
  /\ calls = NoCalls

NextProgress ==
  \/ ViewGoals
  \/ Dashboard
  \/ PreparePortfolioContext
  \/ SummarizeGoals

SpecProgress == InitProgress /\ [][NextProgress]_vars

(* ------------------------------ goal updates --------------------------- *)
\* The amounts the Update Current Amount input accepts (it sets no minimum).
NewCurrents == {0, 60000, -500}

\* An Update Goal handler that also marks the goal as in progress once
\* something has been saved towards it.
UpdateGoalAndStatus ==
  \E user_id \in UserIds, new_current \in NewCurrents :
    \E goal \in select_by_user(db, "goals", user_id) :
      LET r == update_record(db, "goals", goal.id,
                 [current_amount |-> new_current,
                  status |-> IF new_current > 0
                               THEN "in_progress" ELSE goal.status])
      IN /\ db' = r.db
         /\ UNCHANGED <<seq, advisor, session, calls>>
         /\ ret' = Ret("update_goal", user_id, "", "",
                       [id |-> goal.id, current_amount |-> new_current],
                       r.ok, "")

\* GoalsManager.render_view_goals, Update Goal button: the outcome of
\* update_record is not looked at.
UpdateGoal ==
  \E user_id \in UserIds, new_current \in NewCurrents :
    \E goal \in select_by_user(db, "goals", user_id) :
      LET r == update_record(db, "goals", goal.id,
                             [current_amount |-> new_current])
      IN /\ db' = r.db
         /\ UNCHANGED <<seq, advisor, session, calls>>
         /\ ret' = Ret("update_goal", user_id, "", "",
                       [id |-> goal.id, current_amount |-> new_current],
                       r.ok, "")

NextGoals ==
  \/ AddGoal
  \/ UpdateGoal

SpecGoals == InitPortfolio /\ [][NextGoals]_vars

\* Goals next to another kind of holding, and the account deletion that
\* removes both.
NextGoalWriters ==
  \/ AddGoal
  \/ UpdateGoal
  \/ AddExpense
  \/ DeleteAccount

SpecGoalWriters == InitPortfolio /\ [][NextGoalWriters]_vars

(* --------------------------- the browser session ----------------------- *)
\* One Streamlit session: st.session_state as the record session.  An entry
\* of chat_history is (role, message, timestamp); the model leaves the
\* timestamp out and adds owner, the id of the user who was logged in when
\* the entry was appended (the program does not store it).
MaxChat == 8

Entry(role, content, owner) ==
  [role |-> role, content |-> content, owner |-> owner]

\* The id of the logged-in user (st.session_state.user_data['id']).
session_user_id(sess) == sess.user_data[1].id

\* A Login click that leaves the failure counter alone on success.
login_no_reset(sess, d, username, password) ==
  IF username = "" \/ password = ""
    THEN [session |-> sess, called |-> FALSE,
          msg |-> "Please enter both username and password"]
  ELSE LET user_data == authenticate_user(d, username, password)
       IN IF user_data # NULL
            THEN [session |-> [sess EXCEPT !.authenticated = TRUE,
                                          !.user_data = user_data],
                  called |-> TRUE, msg |-> "Login successful!"]
            ELSE [session |-> [sess EXCEPT !.login_attempts = @ + 1],
                  called |-> TRUE, msg |-> "Invalid username or password"]

\* The Login button of login_page; called says whether authenticate_user
\* was called.
login(sess, d, username, password) ==
  IF username = "" \/ password = ""
    THEN [session |-> sess, called |-> FALSE,
          msg |-> "Please enter both username and password"]
  ELSE LET user_data == authenticate_user(d, username, password)
       IN IF user_data # NULL
            THEN [session |-> [sess EXCEPT !.authenticated = TRUE,
                                          !.user_data = user_data,
                                          !.login_attempts = 0],
                  called |-> TRUE, msg |-> "Login successful!"]
            ELSE [session |-> [sess EXCEPT !.login_attempts = @ + 1],
                  called |-> TRUE, msg |-> "Invalid username or password"]

\* logout(): the three authentication keys are reset, nothing else.
logout(sess) ==
  [sess EXCEPT !.authenticated = FALSE, !.user_data = NULL,
               !.login_attempts = 0]

\* get_conversation_history: the last six entries as role/content dicts.
get_conversation_history(chat_history) ==
  LET recent == slice_last(chat_history, 6)
  IN [i \in 1..Len(recent) |->
        Message(IF recent[i].role = "user" THEN "user" ELSE "assistant",
                recent[i].content)]

\* store_interaction: the insert, whose exception is passed over.  A None
\* response is bound as NULL.
store_interaction(d, s, user_id, question, response, fault) ==
  LET base == [user_id |-> user_id, question |-> question,
               created_at |-> "now"]
      data == IF response = PyNone THEN base
              ELSE [c \in {"user_id", "question", "response", "created_at"} |->
                      IF c = "response" THEN response.value ELSE base[c]]
      r == insert_record_call(d, s, "ai_interactions", data, fault)
  IN [db |-> r.db, seq |-> r.seq, stored |-> ~r.raised]

\* process_chat_message that writes the interaction first and gives up the
\* exchange when the write fails.
process_chat_message_store_first(sess, d, s, a, user_message, response, fault) ==
  LET user_id == session_user_id(sess)
      h1 == Append(sess.chat_history,
                   Entry("user", PyStr(user_message), user_id))
      history == get_conversation_history(h1)
      r == chat_with_advisor(a, user_message, history, response)
      h2 == Append(h1, Entry("assistant", r.value, user_id))
      st == store_interaction(d, s, user_id, user_message, r.value, fault)
  IN [session |-> IF st.stored THEN [sess EXCEPT !.chat_history = h2]
                  ELSE sess,
      db |-> st.db, seq |-> st.seq, posted |-> r.posted,
      sent |-> chat_messages(user_message, history),
      value |-> r.value, stored |-> st.stored]

\* process_chat_message: append the user's message, ask the advisor with
\* the recent history, append the answer, store the interaction.
process_chat_message(sess, d, s, a, user_message, response, fault) ==
  LET user_id == session_user_id(sess)
      h1 == Append(sess.chat_history,
                   Entry("user", PyStr(user_message), user_id))
      history == get_conversation_history(h1)
      r == chat_with_advisor(a, user_message, history, response)
      h2 == Append(h1, Entry("assistant", r.value, user_id))
      st == store_interaction(d, s, user_id, user_message, r.value, fault)
  IN [session |-> [sess EXCEPT !.chat_history = h2],
      db |-> st.db, seq |-> st.seq, posted |-> r.posted,
      sent |-> chat_messages(user_message, history),
      value |-> r.value, stored |-> st.stored]

\* get_portfolio_analysis (the Analyze My Portfolio button).
get_portfolio_analysis(sess, d, s, a, response, fault) ==
  LET user_id == session_user_id(sess)
      r == analyze_portfolio(a, response)
      h2 == sess.chat_history
              \o <<Entry("user", PyStr("Analyze my portfolio"), user_id),
                   Entry("assistant", r.value, user_id)>>
      st == store_interaction(d, s, user_id, "Analyze my portfolio",
                              r.value, fault)
  IN [session |-> [sess EXCEPT !.chat_history = h2],
      db |-> st.db, seq |-> st.seq, posted |-> r.posted,
      value |-> r.value, stored |-> st.stored]

\* What the advisor's service answers to a chat message: a text.
SessionResponses ==
  {[raises |-> "", status_code |-> 200,
    body |-> JsonBody(Some(<<Choice(Some(PyStr("Diversify into index funds.")))>>))]}

\* What it answers to the analysis request: a null content.
AnalysisResponses ==
  {[raises |-> "", status_code |-> 200,
    body |-> JsonBody(Some(<<Choice(Some(PyNone))>>))]}

\* login_page with login_attempts below 3: the Login button.
Login ==
  \E username \in {"", "alice", "bob"}, password \in {"secret1", "hunter22"} :
    LET r == login(session, db, username, password)
    IN /\ ~session.authenticated
       /\ session.login_attempts < 3
       /\ session' = r.session
       /\ ret' = Ret("login", 0, username, password,
                     [called |-> r.called], r.session.authenticated, r.msg)
       /\ UNCHANGED <<db, seq, advisor, calls>>

\* The Login button pressed with the credentials of a registered user.
SignIn ==
  \E c \in {[username |-> "alice", password |-> "secret1"],
            [username |-> "bob", password |-> "hunter22"]} :
    LET r == login(session, db, c.username, c.password)
    IN /\ ~session.authenticated
       /\ session.login_attempts < 3
       /\ session' = r.session
       /\ ret' = Ret("login", 0, c.username, c.password,
                     [called |-> r.called], r.session.authenticated, r.msg)
       /\ UNCHANGED <<db, seq, advisor, calls>>

\* login_page with login_attempts at 3 or more: the page shows the warning
\* and returns before any input or button is drawn.
LoginPageLocked ==
  /\ ~session.authenticated
  /\ session.login_attempts >= 3
  /\ ret' = Ret("login_page", 0, "", "", [called |-> FALSE], FALSE,
                "Multiple failed login attempts. Please try again later.")
  /\ UNCHANGED <<db, seq, advisor, session, calls>>

\* login_page, Reset button: clears the two inputs.
ResetLoginForm ==
  /\ ~session.authenticated
  /\ session.login_attempts < 3
  /\ ret' = Ret("reset_login_form", 0, "", "", [called |-> FALSE], TRUE, "")
  /\ UNCHANGED <<db, seq, advisor, session, calls>>

\* login_page, Register tab: Create Account.
RegisterTab ==
  \E username \in {"alice", "carol", "al"}, password \in {"secret1"} :
    LET r == register_user(db, seq, username, password, "", "", "")
    IN /\ ~session.authenticated
       /\ session.login_attempts < 3
       /\ r.seq["users"] <= MaxRows + 1
       /\ db' = r.db
       /\ seq' = r.seq
       /\ ret' = Ret("register", 0, username, password, [called |-> FALSE],
                     r.ok, r.msg)
       /\ UNCHANGED <<advisor, session, calls>>

\* The Logout button of the sidebar.
Logout ==
  /\ session.authenticated
  /\ session' = logout(session)
  /\ ret' = Ret("logout", session_user_id(session), "", "", <<>>, TRUE, "")
  /\ UNCHANGED <<db, seq, advisor, calls>>

\* ProfileManager, DELETE ACCOUNT button.
DeleteAccountPage ==
  \E delete_password \in {"secret1"} :
    LET user_id == session_user_id(session)
        r == delete_user_account(db, user_id, delete_password)
    IN /\ session.authenticated
       /\ db' = r.db
       /\ session' = IF r.ok
                       THEN [session EXCEPT !.authenticated = FALSE,
                                            !.user_data = NULL]
                       ELSE session
       /\ ret' = Ret("delete_account", user_id, "", delete_password, <<>>,
                     r.ok, r.msg)
       /\ UNCHANGED <<seq, advisor, calls>>

\* AIChatInterface.render, Send button with a question typed in.
ProcessChatMessage ==
  \E user_message \in {"Should I invest in ELSS?"},
     response \in SessionResponses, fault \in BOOLEAN :
    LET r == process_chat_message(session, db, seq, advisor, user_message,
                                  response, fault)
    IN /\ session.authenticated
       /\ advisor.api_key # ""
       /\ Len(session.chat_history) + 2 <= MaxChat
       /\ r.seq["ai_interactions"] <= MaxRows
       /\ session' = r.session
       /\ db' = r.db
       /\ seq' = r.seq
       /\ advisor' = advisor
       /\ ret' = Ret("process_chat_message", session_user_id(session), "",
                     "", [user_message |-> user_message, sent |-> r.sent,
                          value |-> r.value, stored |-> r.stored],
                     TRUE, "")
       /\ UNCHANGED calls

\* AIChatInterface.render, Analyze My Portfolio button.
GetPortfolioAnalysis ==
  \E response \in AnalysisResponses, fault \in BOOLEAN :
    LET r == get_portfolio_analysis(session, db, seq, advisor, response,
                                    fault)
    IN /\ session.authenticated
       /\ advisor.api_key # ""
       /\ Len(session.chat_history) + 2 <= MaxChat
       /\ r.seq["ai_interactions"] <= MaxRows
       /\ session' = r.session
       /\ db' = r.db
       /\ seq' = r.seq
       /\ advisor' = advisor
       /\ ret' = Ret("get_portfolio_analysis", session_user_id(session), "",
                     "", [value |-> r.value, stored |-> r.stored], TRUE, "")
       /\ UNCHANGED calls

\* AIChatInterface.render, Clear Chat button.
ClearChat ==
  /\ session.authenticated
  /\ advisor.api_key # ""
  /\ session' = [session EXCEPT !.chat_history = <<>>]
  /\ ret' = Ret("clear_chat", session_user_id(session), "", "", <<>>,
                TRUE, "")
  /\ UNCHANGED <<db, seq, advisor, calls>>

\* A fresh session on a deployment with alice and bob registered and the
\* advisor's key configured.
InitSession ==
  /\ db = TwoUsers.db
  /\ seq = TwoUsers.seq
  /\ ret = Ret("init", 0, "", "", <<>>, TRUE, "")
  /\ advisor = DeepSeekAIAdvisor("sk-live")
  /\ session = NoSession
  /\ calls = NoCalls

NextLogin ==
  \/ Login
  \/ LoginPageLocked
  \/ ResetLoginForm
  \/ RegisterTab
  \/ Logout
  \/ DeleteAccountPage

SpecLogin == InitSession /\ [][NextLogin]_vars

NextChat ==
  \/ SignIn
  \/ Logout
  \/ DeleteAccountPage
  \/ ProcessChatMessage
  \/ GetPortfolioAnalysis
  \/ ClearChat

SpecChat == InitSession /\ [][NextChat]_vars

(* ----------------------- register, call by call ------------------------ *)
\* register_user as the sequence of its gateway calls.  Each call opens its
\* own connection and commits, so the calls of two threads interleave.

\* The existence check: SELECT id FROM users WHERE username = ?
register_check(d, username) == \E r \in d["users"] : r.username = username

\* The users insert, under a possible storage fault.
register_insert_user(d, s, username, password, fault) ==
  insert_record_call(d, s, "users",
    [username |-> username, password_hash |-> hash_password(password),
     email |-> "", full_name |-> "", phone |-> "",
     created_at |-> "now", updated_at |-> "now"], fault)

\* The preferences insert followed, when it fails, by a removal of the
\* users row.
register_insert_prefs_rollback(d, s, user_id, fault) ==
  LET r == insert_record_call(d, s, "user_preferences",
             [user_id |-> user_id, theme |-> "light", currency |-> "INR",
              risk_tolerance |-> "moderate", monthly_income |-> Some(0),
              monthly_expenses |-> Some(0)], fault)
  IN IF r.raised
       THEN [r EXCEPT !.db = [d EXCEPT !["users"] =
                                {u \in @ : u.id # user_id}]]
       ELSE r

\* The default preferences insert, under a possible storage fault.
register_insert_prefs(d, s, user_id, fault) ==
  insert_record_call(d, s, "user_preferences",
    [user_id |-> user_id, theme |-> "light", currency |-> "INR",
     risk_tolerance |-> "moderate", monthly_income |-> Some(0),
     monthly_expenses |-> Some(0)], fault)

\* Thread p returns (ok, msg) from the call it is in; i is the step the call
\* ended at (1 validation, 2 check, 3 users insert, 4 preferences insert).
Return(p, i, ok, msg) ==
  /\ calls' = [calls EXCEPT ![p] = [@ EXCEPT !.pc = "done", !.i = i,
                                              !.ok = ok, !.msg = msg]]
  /\ ret' = Ret(calls[p].op, calls[p].uid, calls[p].username,
                calls[p].password, <<>>, ok, msg)

\* Thread p advances to the next step of its call.
Goto(p, pc, uid) ==
  /\ calls' = [calls EXCEPT ![p] = [@ EXCEPT !.pc = pc, !.uid = uid]]
  /\ UNCHANGED ret

\* A thread enters register_user and validates its input.
RegisterBegin ==
  \E p \in Procs, username \in {"alice", "al"}, password \in {"secret1"} :
    /\ calls[p].pc \in {"idle", "done"}
    /\ seq["users"] < MaxRows
    /\ calls' = [calls EXCEPT ![p] =
         IF Len(username) < 3
           THEN [Idle EXCEPT !.op = "register", !.pc = "done",
                             !.username = username, !.password = password,
                             !.i = 1,
                             !.msg = "Username must be at least 3 characters long"]
           ELSE [Idle EXCEPT !.op = "register", !.pc = "check",
                             !.username = username, !.password = password]]
    /\ ret' = IF Len(username) < 3
                THEN Ret("register", 0, username, password, <<>>, FALSE,
                         "Username must be at least 3 characters long")
                ELSE ret
    /\ UNCHANGED <<db, seq, advisor, session>>

RegisterCheck ==
  \E p \in Procs :
    /\ calls[p].op = "register" /\ calls[p].pc = "check"
    /\ IF register_check(db, calls[p].username)
         THEN Return(p, 2, FALSE, "Username already exists")
         ELSE Goto(p, "insert_user", 0)
    /\ UNCHANGED <<db, seq, advisor, session>>

RegisterInsertUser ==
  \E p \in Procs, fault \in BOOLEAN :
    LET r == register_insert_user(db, seq, calls[p].username,
                                  calls[p].password, fault)
    IN /\ calls[p].op = "register" /\ calls[p].pc = "insert_user"
       /\ db' = r.db
       /\ seq' = r.seq
       /\ IF r.raised
            THEN Return(p, 3, FALSE, "Registration failed: " \o r.error)
            ELSE Goto(p, "insert_prefs", r.value)
       /\ UNCHANGED <<advisor, session>>

RegisterInsertPrefs ==
  \E p \in Procs, fault \in BOOLEAN :
    LET r == register_insert_prefs(db, seq, calls[p].uid, fault)
    IN /\ calls[p].op = "register" /\ calls[p].pc = "insert_prefs"
       /\ db' = r.db
       /\ seq' = r.seq
       /\ IF r.raised
            THEN Return(p, 4, FALSE, "Registration failed: " \o r.error)
            ELSE Return(p, 4, TRUE, "User registered successfully!")
       /\ UNCHANGED <<advisor, session>>

InitRegister ==
  /\ db = EmptyDb
  /\ seq = ZeroSeq
  /\ ret = Ret("init", 0, "", "", <<>>, TRUE, "")
  /\ advisor = DeepSeekAIAdvisor(DEEPSEEK_API_KEY)
  /\ session = NoSession
  /\ calls = NoCalls

NextRegister ==
  \/ RegisterBegin
  \/ RegisterCheck
  \/ RegisterInsertUser
  \/ RegisterInsertPrefs

SpecRegister == InitRegister /\ [][NextRegister]_vars

(* ------------------- account deletion, call by call -------------------- *)
\* delete_user_account as the sequence of its statements.  Every statement
\* commits on its own connection; the thread can die between two of them.

\* A loop that removes the users row by its id before the dependent rows.
delete_statement_users_first(d, i, user_id, fault) ==
  IF fault THEN [err |-> StorageFault, db |-> d]
  ELSE IF i = 1
    THEN [err |-> "",
          db |-> [d EXCEPT !["users"] = {u \in @ : u.id # user_id}]]
  ELSE delete_where_user_id(d, delete_tables[i - 1], user_id)

\* The i-th statement of the loop, under a possible storage fault.
delete_statement(d, i, user_id, fault) ==
  IF fault THEN [err |-> StorageFault, db |-> d]
  ELSE delete_where_user_id(d, delete_tables[i], user_id)

\* A thread enters delete_user_account and verifies the password.
DeleteBegin ==
  \E p \in Procs, user_id \in {1, 2}, password \in {"secret1"} :
    /\ calls[p].pc \in {"idle", "done"}
    /\ calls' = [calls EXCEPT ![p] =
         IF verify_password(db, user_id, password)
           THEN [Idle EXCEPT !.op = "delete_account", !.pc = "statement",
                             !.uid = user_id, !.password = password, !.i = 1]
           ELSE [Idle EXCEPT !.op = "delete_account", !.pc = "done",
                             !.uid = user_id, !.password = password,
                             !.msg = "Password is incorrect"]]
    /\ ret' = IF verify_password(db, user_id, password)
                THEN ret
                ELSE Ret("delete_account", user_id, "", password, <<>>,
                         FALSE, "Password is incorrect")
    /\ UNCHANGED <<db, seq, advisor, session>>

\* One pass of `for table in tables`.
DeleteStatement ==
  \E p \in Procs, fault \in BOOLEAN :
    LET c == calls[p]
        r == delete_statement(db, c.i, c.uid, fault)
    IN /\ c.op = "delete_account" /\ c.pc = "statement"
       /\ db' = r.db
       /\ IF r.err # ""
            THEN Return(p, c.i, FALSE, "Failed to delete account: " \o r.err)
          ELSE IF c.i = Len(delete_tables)
            THEN Return(p, c.i, TRUE, "Account deleted successfully")
          ELSE /\ calls' = [calls EXCEPT ![p].i = c.i + 1]
               /\ UNCHANGED ret
       /\ UNCHANGED <<seq, advisor, session>>

\* The thread dies between two statements; nothing is returned.
DeleteCrash ==
  \E p \in Procs :
    /\ calls[p].op = "delete_account" /\ calls[p].pc = "statement"
    /\ calls' = [calls EXCEPT ![p] = Idle]
    /\ UNCHANGED <<db, seq, ret, advisor, session>>

NextDelete ==
  \/ AddGoal
  \/ DeleteBegin
  \/ DeleteStatement
  \/ DeleteCrash

SpecDelete == InitPortfolio /\ [][NextDelete]_vars

(* ------------------------------ properties ----------------------------- *)
\* What user u can read of the portfolio tables.
UserReads(d, u) ==
  <<get_user_stats(d, u), get_user_portfolio_summary(d, u),
    get_full_portfolio_data(d, u), get_ai_history(d, u)>>

\* C1: no per-user read made for user u returns a row owned by another user,
\* and a row another user inserts changes nothing that u reads (lists,
\* counts, sums, summaries, the data handed to the advisor).
C1_UserIsolation ==
  [][ /\ \A u \in UserIds : \A t \in AssetTables \ {"ai_interactions"} :
           \A r \in db'[t] :
             r.user_id # u => r \notin get_full_portfolio_data(db', u)[t]
      /\ \A u \in UserIds :
           (ret'.op \in InsertOps /\ ret'.uid # u)
             => UserReads(db', u) = UserReads(db, u) ]_vars

C1_Witness ==
  /\ ret.op \in InsertOps /\ ret.ok
  /\ \E t \in AssetTables : \E r1, r2 \in db[t] : r1.user_id # r2.user_id

\* C2: registering a free username of length >= 3 with a password of length
\* >= 6 succeeds, and authenticating with the same credentials then returns
\* a user record carrying that username.
C2_RegisterThenAuthenticate ==
  [][ ( /\ ret'.op = "register"
        /\ Len(ret'.username) >= 3 /\ Len(ret'.password) >= 6
        /\ ~\E u \in db["users"] : u.username = ret'.username )
      => /\ ret'.ok
         /\ authenticate_user(db', ret'.username, ret'.password) # NULL
         /\ authenticate_user(db', ret'.username, ret'.password)[1].username
              = ret'.username ]_vars

C2_Witness ==
  /\ ret.op = "register" /\ ret.ok
  /\ authenticate_user(db, ret.username, ret.password) # NULL

\* C3: registering a username that already has a users row fails, leaves
\* exactly one users row with that username and creates no preferences row.
C3_DuplicateRejected ==
  [][ ( /\ ret'.op = "register"
        /\ \E u \in db["users"] : u.username = ret'.username )
      => /\ ~ret'.ok
         /\ Cardinality({u \in db'["users"] : u.username = ret'.username}) = 1
         /\ db'["user_preferences"] = db["user_preferences"] ]_vars

C3_Witness ==
  /\ ret.op = "register" /\ ret.msg = "Username already exists"
  /\ \E u \in db["users"] : u.username = ret.username

\* C4: delete_account with the correct password returns success, removes the
\* users row, and authentication with that user's credentials then fails.
C4_DeleteRemovesUser ==
  [][ ( /\ ret'.op = "delete_account"
        /\ verify_password(db, ret'.uid, ret'.password) )
      => /\ ret'.ok
         /\ ~\E u \in db'["users"] : u.id = ret'.uid
         /\ \A u \in db["users"] :
              u.id = ret'.uid
                => authenticate_user(db', u.username, ret'.password) = NULL
    ]_vars

\* C5: delete_account with the correct password leaves no row of that user
\* in any of the eight dependent tables and changes no row of another user.
C5_DeleteCascades ==
  [][ ( /\ ret'.op = "delete_account"
        /\ verify_password(db, ret'.uid, ret'.password) )
      => /\ \A t \in Tables \ {"users"} :
              /\ \A r \in db'[t] : r.user_id # ret'.uid
              /\ db'[t] = {r \in db[t] : r.user_id # ret'.uid}
         /\ {u \in db'["users"] : u.id # ret'.uid}
              = {u \in db["users"] : u.id # ret'.uid} ]_vars

C5_Witness ==
  /\ ret.op = "delete_account"
  /\ verify_password(db, ret.uid, ret.password)
  /\ \E t \in AssetTables : db[t] # {} /\ seq[t] > Cardinality(db[t])

\* C6: delete_account with a password that does not match the stored hash
\* returns failure and every table keeps exactly its rows.
C6_WrongPasswordDeletesNothing ==
  [][ ( /\ ret'.op = "delete_account"
        /\ ~verify_password(db, ret'.uid, ret'.password) )
      => ~ret'.ok /\ db' = db ]_vars

C6_Witness ==
  /\ ret.op = "delete_account" /\ ret.msg = "Password is incorrect"
  /\ \E t \in AssetTables : \E r \in db[t] : r.user_id = ret.uid

\* C7: when update_profile returns success, every User field and every
\* UserPreferences field of the field map is stored with the supplied value.
C7_ProfileStored ==
  [][ (ret'.op = "update_profile" /\ ret'.ok)
      => \A k \in DOMAIN ret'.data :
           /\ k \in user_fields =>
                \E u \in db'["users"] :
                  u.id = ret'.uid /\ u[k] = ret'.data[k]
           /\ k \in pref_fields =>
                \E p \in db'["user_preferences"] :
                  p.user_id = ret'.uid /\ p[k] = ret'.data[k] ]_vars

\* C8: register with a username under 3 characters or a password under 6
\* returns failure and writes nothing.
C8_ValidationNoWrite ==
  [][ ( /\ ret'.op = "register"
        /\ (Len(ret'.username) < 3 \/ Len(ret'.password) < 6) )
      => ~ret'.ok /\ db' = db /\ seq' = seq ]_vars

C8_Witness ==
  /\ ret.op = "register" /\ ~ret.ok
  /\ Len(ret.username) >= 3 /\ Len(ret.password) < 6
  /\ ~\E u \in db["users"] : u.username = ret.username

\* C9: a successful register adds exactly one users row and exactly one
\* user_preferences row for the new id, with theme 'light', currency 'INR',
\* risk_tolerance 'moderate', monthly_income 0 and monthly_expenses 0.
C9_RegisterCreatesBoth ==
  [][ (ret'.op = "register" /\ ret'.ok)
      => \E u \in db'["users"] :
           /\ db'["users"] = db["users"] \cup {u} /\ u \notin db["users"]
           /\ u.username = ret'.username
           /\ \E p \in db'["user_preferences"] :
                /\ db'["user_preferences"] = db["user_preferences"] \cup {p}
                /\ {q \in db'["user_preferences"] : q.user_id = u.id} = {p}
                /\ p.theme = "light" /\ p.currency = "INR"
                /\ p.risk_tolerance = "moderate"
                /\ p.monthly_income = Some(0)
                /\ p.monthly_expenses = Some(0) ]_vars

C9_Witness ==
  /\ ret.op = "register" /\ ret.ok
  /\ Cardinality(db["users"]) = 2
  /\ \A u \in db["users"] :
       Cardinality({p \in db["user_preferences"] : p.user_id = u.id}) = 1

\* C10: change_password fails and keeps the stored hash when the current
\* password does not match or the new one is under 6 characters; the
\* current password is checked first.
C10_ChangePasswordRejected ==
  [][ ( /\ ret'.op = "change_password"
        /\ \/ ~verify_password(db, ret'.uid, ret'.password)
           \/ Len(ret'.data) < 6 )
      => /\ ~ret'.ok
         /\ db' = db
         /\ ~verify_password(db, ret'.uid, ret'.password)
              => ret'.msg = "Current password is incorrect" ]_vars

C10_Witness ==
  /\ ret.op = "change_password" /\ ~ret.ok
  /\ Len(ret.data) < 6
  /\ ~verify_password(db, ret.uid, ret.password)

\* C11: after change_password succeeds with a new password different from
\* the current one, the user authenticates with the new password and no
\* longer with the current one, and what every other user's credentials
\* authenticate to is unchanged.
C11_PasswordChanged ==
  [][ ( /\ ret'.op = "change_password" /\ ret'.ok
        /\ ret'.data # ret'.password )
      => \A u \in db["users"] :
           IF u.id = ret'.uid
             THEN /\ authenticate_user(db', u.username, ret'.data) # NULL
                  /\ authenticate_user(db', u.username, ret'.data)[1].id = u.id
                  /\ authenticate_user(db', u.username, ret'.password) = NULL
             ELSE \A p \in Passwords :
                    authenticate_user(db', u.username, p)
                      = authenticate_user(db, u.username, p) ]_vars

C11_Witness ==
  /\ ret.op = "change_password" /\ ret.ok /\ ret.data # ret.password
  /\ Cardinality(db["users"]) = 2
  /\ \E u \in db["users"] :
       u.id = ret.uid /\ u.password_hash = hash_password(ret.data)

\* C12: update_profile with at least one preference field, for a user with
\* no user_preferences row, creates exactly one such row for that user with
\* the supplied preference fields; no update_profile call writes a field
\* that is neither a User field nor a UserPreferences field (username and
\* password_hash keep their values).
C12_PreferencesCreated ==
  [][ ret'.op = "update_profile"
      => /\ ( /\ ~\E p \in db["user_preferences"] : p.user_id = ret'.uid
              /\ (DOMAIN ret'.data) \cap pref_fields # {} )
            => \E p \in db'["user_preferences"] :
                 /\ p \notin db["user_preferences"]
                 /\ db'["user_preferences"] = db["user_preferences"] \cup {p}
                 /\ {q \in db'["user_preferences"] : q.user_id = ret'.uid} = {p}
                 /\ \A k \in (DOMAIN ret'.data) \cap pref_fields :
                      p[k] = ret'.data[k]
         /\ \A u \in db["users"] :
              \E v \in db'["users"] :
                /\ v.id = u.id /\ v.username = u.username
                /\ v.password_hash = u.password_hash
         /\ Cardinality(db'["users"]) = Cardinality(db["users"]) ]_vars

C12_Witness ==
  /\ ret.op = "update_profile" /\ ret.ok
  /\ "username" \in DOMAIN ret.data
  /\ \E p \in db["user_preferences"] :
       p.user_id = ret.uid /\ p.monthly_income = ret.data["monthly_income"]

\* C13 (as claimed): execute, insert, update and delete each report a
\* storage error by raising it to the caller; query_table swallows it and
\* returns an empty table.
C13_AllWritesRaise ==
  [][ ret'.msg # ""
      => /\ ret'.op \in {"execute_query", "insert_record", "update_record",
                         "delete_record"} => ~ret'.ok
         /\ ret'.op = "get_dataframe" => (ret'.ok /\ ret'.data = {}) ]_vars

\* C13 (amended): execute and insert raise the storage error to the caller;
\* update and delete catch it and return false; query_table catches it and
\* returns an empty table.  None of them changes a row when the error occurs.
C13_FailurePolicy ==
  [][ ret'.msg # ""
      => /\ ret'.op \in {"execute_query", "insert_record"} => ~ret'.ok
         /\ ret'.op \in {"update_record", "delete_record"}
              => (ret'.ok /\ ret'.data = FALSE)
         /\ ret'.op = "get_dataframe" => (ret'.ok /\ ret'.data = {})
         /\ db' = db /\ seq' = seq ]_vars

C13_Witness ==
  /\ ret.op = "update_record" /\ ret.msg = StorageFault
  /\ ret.ok /\ ret.data = FALSE
  /\ \E r \in db["goals"] : r.id = ret.uid

\* C14: every advisory operation returns a text value and never raises,
\* whatever the network call did: timeout, connection error, non-200 status
\* or a 200 response with a malformed body.
C14_AlwaysText ==
  [][ ret'.op \in AdvisoryOps
      => (ret'.ok /\ ret'.data.value.type = "str") ]_vars

\* C15: with no credential configured every advisory call returns the fixed
\* 'not available' string and posts no HTTP request, whatever the network
\* would have answered.
C15_NoCredentialNoRequest ==
  [][ (ret'.op \in AdvisoryOps /\ advisor.api_key = "")
      => /\ ret'.ok
         /\ ret'.data.value = PyStr(NotAvailable)
         /\ advisor' = advisor
         /\ advisor'.posted = 0 ]_vars

C15_Witness ==
  /\ ret.op = "chat_with_advisor"
  /\ advisor.api_key = ""
  /\ ret.data.response.status_code = 200
  /\ result_content(ret.data.response.body).raises = ""
  /\ ret.data.value = PyStr(NotAvailable)

\* C16: a fund inserted with amount A through the form or through import
\* reads back with amount_invested = A and current_value = A, and in every
\* reachable state every fund row has current_value = amount_invested.
C16_FundRoundTrip ==
  /\ [](\A f \in db["mutual_funds"] : f.current_value = f.amount_invested)
  /\ [][ (ret'.op = "add_investment" /\ ret'.ok)
         => \E in \in FundInputs :
              \E f \in select_by_user(db', "mutual_funds", ret'.uid) :
                /\ f \notin db["mutual_funds"]
                /\ f.id = ret'.data
                /\ f.fund_name = in.fund_name
                /\ f.amount_invested = in.amount
                /\ f.current_value = in.amount ]_vars
  /\ [][ ret'.op = "import_funds"
         => \A i \in 1..Len(ret'.data.file) :
              ret'.data.ids[i] # 0
                => \E f \in select_by_user(db', "mutual_funds", ret'.uid) :
                     /\ f \notin db["mutual_funds"]
                     /\ f.id = ret'.data.ids[i]
                     /\ f.amount_invested
                          = py_float(ret'.data.file[i].amount).value
                     /\ f.current_value
                          = py_float(ret'.data.file[i].amount).value ]_vars

C16_Witness ==
  /\ ret.op = "import_funds"
  /\ \E f \in db["mutual_funds"] :
       /\ f.id = ret.data.ids[1]
       /\ f.amount_invested = 5000 /\ f.current_value = 5000
  /\ \E f \in db["mutual_funds"] :
       /\ f.fund_name = "HDFC Top 100"
       /\ f.amount_invested = 1000 /\ f.current_value = 1000

\* C19: an imported fund or stock row is inserted only if it would pass
\* manual entry: non-empty name, strictly positive amount (funds) or
\* quantity and price (stocks), and a valid date.
C19_ImportValidated ==
  [][ /\ ret'.op = "import_funds"
         => \A i \in 1..Len(ret'.data.file) :
              ret'.data.ids[i] # 0
                => LET row == ret'.data.file[i]
                   IN /\ str_strip(row.fund_name) # ""
                      /\ py_float(row.amount).raises = ""
                      /\ py_float(row.amount).value > 0
                      /\ to_isoformat(row.purchase_date).raises = ""
      /\ ret'.op = "import_stocks"
         => \A i \in 1..Len(ret'.data.file) :
              ret'.data.ids[i] # 0
                => LET row == ret'.data.file[i]
                   IN /\ str_strip(row.stock_name) # ""
                      /\ py_int(row.quantity).raises = ""
                      /\ py_int(row.quantity).value > 0
                      /\ py_float(row.price).raises = ""
                      /\ py_float(row.price).value > 0
                      /\ to_isoformat(row.purchase_date).raises = "" ]_vars

\* What a set of fund rows cost, and what a set of stock rows cost.
RECURSIVE FundsCost(_)
FundsCost(rows) ==
  IF rows = {} THEN 0
  ELSE LET f == CHOOSE x \in rows : TRUE
       IN f.amount_invested + FundsCost(rows \ {f})

RECURSIVE StocksCost(_)
StocksCost(rows) ==
  IF rows = {} THEN 0
  ELSE LET k == CHOOSE x \in rows : TRUE
       IN k.quantity * k.purchase_price + StocksCost(rows \ {k})

\* C20: get_user_stats(user_id).total_investment is the sum of
\* amount_invested over the user's funds plus the sum of quantity x
\* purchase_price over the user's stocks: 0 with no holdings, 25000 for a
\* single stock of 10 at 2500.
C20_TotalInvestment ==
  \A u \in UserIds :
    LET funds == {f \in db["mutual_funds"] : f.user_id = u}
        stocks == {k \in db["stocks"] : k.user_id = u}
        total == get_user_stats(db, u).total_investment
    IN /\ total = FundsCost(funds) + StocksCost(stocks)
       /\ (funds = {} /\ stocks = {}) => total = 0
       /\ ( /\ funds = {}
            /\ Cardinality(stocks) = 1
            /\ \A k \in stocks : k.quantity = 10 /\ k.purchase_price = 2500 )
          => total = 25000

C20_Witness ==
  \E u \in UserIds, v \in UserIds :
    /\ u # v
    /\ get_user_stats(db, u).total_investment = 25000
    /\ get_user_stats(db, u).mutual_funds_count = 0
    /\ get_user_stats(db, v).total_investment = 1000
    /\ get_user_stats(db, v).stocks_count = 0

C18_GoalsNonNegative ==
  \A goal \in db["goals"] :
    /\ goal.target_amount >= 0
    /\ goal.current_amount >= 0
    /\ view_goal_progress(goal).tenths >= 0

\* C21: for every table, update(table, id, field_map) on an existing row
\* with a non-empty field_map returns true, and afterwards the row holds
\* the supplied values (with updated_at stamped anew).
C21_UpdateEveryTable ==
  [][ ( /\ ret'.op = "update_record"
        /\ ret'.msg # StorageFault
        /\ \E r \in db[ret'.username] : r.id = ret'.uid )
      => /\ ret'.data = TRUE
         /\ \A in \in GatewayUpdates :
              (in.table = ret'.username /\ in.id = ret'.uid)
                => \E r \in db'[in.table] :
                     /\ r.id = in.id
                     /\ \A k \in DOMAIN in.data : r[k] = in.data[k] ]_vars

\* C22: under any interleaving of two register calls with the same username
\* (check and insert being separate steps) at most one users row with that
\* username ever exists and at most one of the calls returns success.
C22_ConcurrentRegister ==
  /\ [](\A u \in db["users"], v \in db["users"] :
          u.username = v.username => u = v)
  /\ [](\A p \in Procs, q \in Procs :
          ( /\ calls[p].pc = "done" /\ calls[p].ok
            /\ calls[q].pc = "done" /\ calls[q].ok
            /\ calls[p].username = calls[q].username ) => p = q)
  /\ [][ \A p \in Procs :
           (calls[p].pc # "done" /\ calls'[p].pc = "done" /\ calls'[p].ok)
             => /\ \A q \in Procs \ {p} :
                     calls[q].username = calls[p].username
                       => ~(calls[q].pc = "done" /\ calls[q].ok)
                /\ Cardinality({u \in db'["users"] :
                                  u.username = calls[p].username}) = 1 ]_vars

C22_Witness ==
  \E p \in Procs, q \in Procs :
    /\ calls[p].pc = "done" /\ calls[p].ok
    /\ calls[q].pc = "done" /\ ~calls[q].ok /\ calls[q].i = 3
    /\ calls[q].username = calls[p].username
    /\ calls[q].msg = "Registration failed: UNIQUE constraint failed"

\* C23: when the users insert of register succeeds and the preferences
\* insert fails, register returns (failure, message), nothing is cleaned up,
\* the users row remains, a later authenticate with those credentials
\* succeeds and a later register of the username is rejected as a duplicate.
C23_HalfRegistered ==
  /\ [][ \A p \in Procs :
           (calls[p].pc = "insert_prefs" /\ calls'[p].pc = "done"
              /\ ~calls'[p].ok)
             => /\ ~ret'.ok
                /\ ret'.msg = "Registration failed: " \o StorageFault
                /\ db' = db
                /\ \E u \in db'["users"] :
                     /\ u.id = calls[p].uid
                     /\ u.username = calls[p].username
                /\ ~\E r \in db'["user_preferences"] :
                      r.user_id = calls[p].uid ]_vars
  /\ [](\A p \in Procs :
          (calls[p].pc = "done" /\ calls[p].i = 4 /\ ~calls[p].ok)
            => /\ authenticate_user(db, calls[p].username,
                                    calls[p].password) # NULL
               /\ authenticate_user(db, calls[p].username,
                                    calls[p].password)[1].id = calls[p].uid
               /\ ~register_user(db, seq, calls[p].username,
                                 calls[p].password, "", "", "").ok
               /\ register_user(db, seq, calls[p].username,
                                calls[p].password, "", "", "").msg
                    = "Username already exists")
  /\ [][ \A q \in Procs :
           ( /\ calls[q].pc = "check" /\ calls'[q].pc # "check"
             /\ \E p \in Procs :
                  /\ calls[p].pc = "done" /\ calls[p].i = 4 /\ ~calls[p].ok
                  /\ calls[p].username = calls[q].username )
             => /\ calls'[q].pc = "done" /\ ~calls'[q].ok
                /\ calls'[q].msg = "Username already exists" ]_vars

C23_Witness ==
  \E p \in Procs, q \in Procs :
    /\ calls[p].pc = "done" /\ calls[p].i = 4 /\ ~calls[p].ok
    /\ calls[q].pc = "done" /\ calls[q].i = 2
    /\ calls[q].username = calls[p].username
    /\ calls[q].msg = "Username already exists"
    /\ ~\E r \in db["user_preferences"] : r.user_id = calls[p].uid

\* C24: in every state reached by a sequence of whole register,
\* update_profile, change_password and delete_account calls, each user id
\* has at most one user_preferences row.
C24_OnePreferencesRow ==
  \A p \in db["user_preferences"], q \in db["user_preferences"] :
    p.user_id = q.user_id => p = q

\* update_profile has created the preferences row of a user whose first one
\* was removed by delete_account.
C24_Witness ==
  /\ ret.op = "update_profile"
  /\ ret.ok
  /\ \E u \in db["users"], p \in db["user_preferences"] :
       /\ u.id = ret.uid
       /\ p.user_id = u.id
       /\ p.id > Cardinality(db["users"])

\* Tables whose rows belong to a user through user_id.
DependentTables == {t \in Tables : "user_id" \in Columns(t)}

\* C25: account deletion runs one statement per table, the users table last;
\* in every intermediate state of delete_account, a crash or storage fault
\* after any statement included, it never holds that the users row is gone
\* while a row of that user remains in a dependent table.
C25_NoOrphans ==
  /\ [](\A id \in 1..seq["users"] :
          (~\E u \in db["users"] : u.id = id)
            => \A t \in DependentTables : ~\E r \in db[t] : r.user_id = id)
  /\ [][ \A p \in Procs :
           (calls[p].op = "delete_account" /\ calls[p].pc = "statement"
              /\ calls'[p] # calls[p])
             => /\ \A t \in Tables \ {delete_tables[calls[p].i]} :
                     db'[t] = db[t]
                /\ (calls[p].i < Len(delete_tables)
                      => db'["users"] = db["users"]) ]_vars
  /\ delete_tables[Len(delete_tables)] = "users"

\* A delete call ended by a storage fault at the stocks statement: the
\* user's goal is gone, the preferences and the users row are still there.
C25_Witness ==
  \E p \in Procs :
    /\ calls[p].op = "delete_account"
    /\ calls[p].pc = "done"
    /\ calls[p].i = 6
    /\ calls[p].msg = "Failed to delete account: " \o StorageFault
    /\ Cardinality(db["goals"]) < seq["goals"]
    /\ ~\E g \in db["goals"] : g.user_id = calls[p].uid
    /\ \E r \in db["user_preferences"] : r.user_id = calls[p].uid
    /\ \E u \in db["users"] : u.id = calls[p].uid

\* C26: once a goal exists, the only operation that changes any of its
\* fields is the update-progress action, which sets current_amount (and
\* updated_at) of the goal with the given id and leaves every other field of
\* that goal and every other goal as they were.
C26_GoalFrame ==
  [][ /\ \A g \in db["goals"], h \in db'["goals"] :
           h.id = g.id
             => \/ h = g
                \/ /\ ret'.op = "update_goal"
                   /\ ret'.data.id = g.id
                   /\ h = [g EXCEPT !.current_amount =
                                      ret'.data.current_amount]
      /\ ret'.op = "update_goal"
           => /\ ret'.ok
              /\ \E h \in db'["goals"] :
                   /\ h.id = ret'.data.id
                   /\ h.current_amount = ret'.data.current_amount
              /\ Cardinality(db'["goals"]) = Cardinality(db["goals"]) ]_vars

\* One of two goals has been updated; the other still has the amount it was
\* created with.
C26_Witness ==
  /\ ret.op = "update_goal"
  /\ \E g \in db["goals"], h \in db["goals"] :
       /\ g.id = ret.data.id
       /\ g.current_amount = 60000
       /\ g.target_amount = 100000
       /\ g.status = "active"
       /\ h.id # g.id
       /\ h.current_amount = 25000

\* C27: in process_chat_message a failure to write the interaction row is
\* passed over: the user's message and the advisor's response are appended
\* to the session's chat history, in that order, whether or not the write
\* succeeds, and no existing ai_interactions row is ever modified.
C27_BestEffortStore ==
  [][ /\ ret'.op = "process_chat_message"
           => /\ ret'.ok
              /\ session'.chat_history =
                   session.chat_history
                     \o <<Entry("user", PyStr(ret'.data.user_message),
                                ret'.uid),
                          Entry("assistant", ret'.data.value, ret'.uid)>>
              /\ db["ai_interactions"] \subseteq db'["ai_interactions"]
              /\ ~ret'.data.stored => db' = db
              /\ ret'.data.stored
                   => \E r \in db'["ai_interactions"] \ db["ai_interactions"] :
                        /\ r.user_id = ret'.uid
                        /\ r.question = ret'.data.user_message
                        /\ PyStr(r.response) = ret'.data.value
      /\ \A r \in db["ai_interactions"], q \in db'["ai_interactions"] :
           q.id = r.id => q = r ]_vars

\* A chat message whose interaction was not written, in a session that has
\* an earlier interaction on record.
C27_Witness ==
  /\ ret.op = "process_chat_message"
  /\ ~ret.data.stored
  /\ \E r \in db["ai_interactions"] : r.user_id = ret.uid
  /\ Len(session.chat_history) >= 4
  /\ session.chat_history[Len(session.chat_history)].role = "assistant"
  /\ session.chat_history[Len(session.chat_history) - 1]
       = Entry("user", PyStr(ret.data.user_message), ret.uid)

\* C28: login_attempts grows by one on each failed authenticate and is reset
\* to 0 by a successful login; once it has reached 3 the login page makes no
\* authenticate call, and nothing an unauthenticated session can do brings
\* it back below 3.
C28_LoginAttempts ==
  [][ /\ (ret'.op = "login" /\ ret'.data.called /\ ~ret'.ok)
           => /\ session'.login_attempts = session.login_attempts + 1
              /\ ~session'.authenticated
      /\ (ret'.op = "login" /\ ret'.ok)
           => /\ ret'.data.called
              /\ session'.login_attempts = 0
              /\ session'.authenticated
      /\ (ret'.op = "login" /\ ~ret'.data.called)
           => session' = session
      /\ (~session.authenticated /\ session.login_attempts >= 3)
           => /\ ret'.op = "login_page"
              /\ ~ret'.data.called
              /\ ~session'.authenticated
              /\ session'.login_attempts >= 3
      /\ ~session.authenticated
           => \/ session'.login_attempts >= session.login_attempts
              \/ session'.authenticated ]_vars

\* The login page of a session that is locked after three failed logins.
C28_Witness ==
  /\ ret.op = "login_page"
  /\ ~session.authenticated
  /\ session.login_attempts = 3

\* The entries of a chat history as role/content messages.
AsMessages(h) == [i \in 1..Len(h) |-> Message(h[i].role, h[i].content)]

\* C29: within one browser session, after user A has logged out or deleted
\* the account and another user B has logged in, the chat history shown to B
\* and sent to the advisor as conversation history holds no message of A's
\* conversations.
C29_NoForeignHistory ==
  /\ [](session.authenticated
          => \A i \in 1..Len(session.chat_history) :
               session.chat_history[i].owner = session_user_id(session))
  /\ [][ ret'.op = "process_chat_message"
           => \A i \in 1..Len(session.chat_history) :
                session.chat_history[i].owner = ret'.uid ]_vars

\* C30: for every chat message processed, the list sent to the advisor is
\* the system message, then at most 5 earlier history messages in their
\* order, then the user's current message, which is in the list once.
C30_MessageList ==
  [][ ret'.op = "process_chat_message"
        => LET sent == ret'.data.sent
               before == AsMessages(session.chat_history)
               current == Message("user", PyStr(ret'.data.user_message))
           IN /\ Len(sent) >= 2
              /\ sent[1] = SystemMessage
              /\ sent[Len(sent)] = current
              /\ \E k \in 0..5 :
                   SubSeq(sent, 2, Len(sent) - 1) = slice_last(before, k) ]_vars
====
